---- MODULE Spec2Model ----
(***************************************************************************)
(* Model of the zeno server core.                                          *)
(*  - the route-matching engine (src/src/core/router.ts): the segment      *)
(*    trie, addRoute, findRoute with its cache, and loadRoutes;            *)
(*  - the middleware pipeline (src/src/core/middleware.ts) and the Node    *)
(*    request listener (src/src/adapters/node.ts);                         *)
(*  - the load balancer and the worker pool (utils/loadBalancer);          *)
(*  - graceful shutdown (utils/gracefulShutdown).                          *)
(* Strings the code splits or compares by prefix are sequences of          *)
(* one-character strings, so that splitting, trailing-slash stripping and  *)
(* pattern parsing act on characters.                                      *)
(***************************************************************************)
EXTENDS Integers, Sequences, FiniteSets, TLC

VARIABLES
  rootNode,      \* Router.rootNode: the trie
  cachedRoutes,  \* Router.cachedRoutes
  routeCount,    \* Router.routeCount
  registered,    \* history: the addRoute calls made on the current rootNode
  lastLookup,    \* the latest findRoute call and what it returned
  loadPc,        \* where loadRoutes is suspended
  scanQueue,     \* index modules scanDir has still to import
  disk,          \* the routes directory: its index modules in scan order
  scanned,       \* history: the directory tree the latest loadRoutes read
  before,        \* history: the addRoute calls behind the table that loadRoutes replaced
  config,            \* the ServerConfig createHandler's closure holds, once listening
  globalMiddlewares, \* middleware.ts globalMiddlewares: hooks per phase
  pathMiddlewares,   \* middleware.ts pathMiddlewares: Map entries in insertion order
  lastRequest,       \* history: the latest request and what requestListener did with it
  requestCount,      \* history: requests handled so far
  rejections,        \* requestListener promises that rejected
  state,             \* createLoadBalancer: the closure's state record
  workerCount,       \* numWorkers given to start(), 0 before
  clusterWorkers,    \* cluster.workers: ids of the live worker processes
  nextWorkerId,      \* the id cluster.fork() gives next
  restartTimers,     \* pending setTimeout callbacks of the two 'exit' listeners
  recent,            \* history: selections since the worker list last changed
  lastPick,          \* history: the latest getNextWorker call
  assigned,          \* history: per client, the worker its latest call returned
  dropped,           \* history: clients whose sticky entry the cap removed
  exitCount,         \* history: worker exits so far
  burstCount,        \* history: OtherClients steps so far
  shutdownArmed,          \* setupGracefulShutdown has installed its listeners
  isWorker,               \* cluster.isWorker in this process
  isShuttingDown,         \* setupGracefulShutdown: isShuttingDown
  shutdownPc,             \* where shutdown() is suspended, or "exited" after process.exit
  accepting,              \* the server accepts new connections
  connections,            \* setupGracefulShutdown: connections
  destroyed,              \* tracked sockets already destroyed, 'close' event pending
  forceShutdownTimeout,   \* deadline of the timer, or NoTimer
  connectionCloseTimeout, \* deadline of the timer, or NoTimer
  checkInterval,          \* the 1 s interval is set
  clock,                    \* the time
  signalAt,               \* history: when shutdown() was entered
  watcherHandlers,        \* the watcher module's SIGINT/SIGTERM listeners are installed
  serverShutdown,         \* core/server.ts: "none", "installed", or "closing" once its isShuttingDown is set
  serverCloseTimer,       \* deadline of the 3 s timer of core/server.ts, or NoTimer
  calls,                  \* history: invocations of beforeShutdown, server.close and onShutdown
  completedSteps,         \* history: steps of shutdown() that have finished
  exitReason,             \* history: which process.exit ended the process
  signalCount,            \* history: signals and shutdown() calls so far
  signalled,              \* history: the signals received
  responses,              \* per response: its state, its 'finish'/'close' listeners, the closure's timedOut
  timeoutMap,             \* utils/timeout.ts timeoutMap: the responses holding a pending timer
  middlewareDisk,         \* the routes directory: its +middleware modules in scan order
  inflight,               \* a request whose listener is suspended at the await of a hook
  isWatching,             \* core/watcher.ts isWatching
  isReloading,            \* core/watcher.ts isReloading
  debounceTimer,          \* utils/debounce timeout: TRUE while the timer is pending
  watcherPc,              \* where the watcher's reload callback stands
  notifications,          \* how many directory-change notifications were delivered
  lastRun,                \* history: the last call of runMiddlewares made on its own
  pathMatchCache,         \* core/middleware.ts pathMatchCache, in insertion order
  lastApplicable,         \* history: the last call of isPathApplicable
  openConnections,        \* per worker process: the connections its server holds open
  monitorData,            \* utils/monitor.ts data: the counters of the monitor
  tracked                 \* per request: where its listener stands, or how it returned

routerVars == <<rootNode, cachedRoutes, routeCount, registered, lastLookup,
                loadPc, scanQueue, disk, scanned, before>>
requestVars == <<config, globalMiddlewares, lastRequest, requestCount, rejections>>
dispatchVars == <<requestVars, pathMiddlewares>>

balancerVars == <<state, workerCount, clusterWorkers, nextWorkerId, restartTimers,
                  recent, lastPick, assigned, dropped, exitCount, burstCount>>

processVars == <<watcherHandlers, serverShutdown, serverCloseTimer, calls, completedSteps,
                 exitReason, signalCount, signalled>>

shutdownVars == <<shutdownArmed, isWorker, isShuttingDown, shutdownPc, accepting, connections,
                  destroyed, forceShutdownTimeout, connectionCloseTimeout, checkInterval,
                  clock, signalAt, processVars>>

timeoutVars == <<responses, timeoutMap>>

directoryVars == <<middlewareDisk, inflight>>

watcherVars == <<isWatching, isReloading, debounceTimer, watcherPc, notifications>>

phaseVars == <<lastRun>>

serviceVars == <<pathMatchCache, lastApplicable, openConnections, monitorData, tracked>>

extraVars == <<timeoutVars, directoryVars, watcherVars, phaseVars, serviceVars>>

vars == <<routerVars, dispatchVars, balancerVars, shutdownVars, extraVars>>

(***************************************************************************)
(* Bounds of the model.                                                    *)
(***************************************************************************)
MaxRoutes == 2
MaxCached == 1
MaxRuns == 2

(***************************************************************************)
(* Characters and strings.                                                 *)
(***************************************************************************)
WordChars == {"a", "b", "c", "x", "y", "q"}

RECURSIVE SplitAcc(_, _, _, _)
SplitAcc(s, i, cur, acc) ==
  IF i > Len(s)
  THEN IF cur = <<>> THEN acc ELSE Append(acc, cur)
  ELSE IF s[i] = "/"
       THEN SplitAcc(s, i + 1, <<>>, IF cur = <<>> THEN acc ELSE Append(acc, cur))
       ELSE SplitAcc(s, i + 1, Append(cur, s[i]), acc)

\* url.split('/').filter(Boolean)
SplitSegments(s) == SplitAcc(s, 1, <<>>, <<>>)

RECURSIVE StripTrailingSlashes(_)
StripTrailingSlashes(s) ==
  IF s # <<>> /\ s[Len(s)] = "/"
  THEN StripTrailingSlashes(SubSeq(s, 1, Len(s) - 1))
  ELSE s

\* the slip url.replace(/\/$/, ''): one trailing slash only
NormalizeUrl_OneSlash(url) ==
  IF url # <<>> /\ url[Len(url)] = "/" /\ url # <<"/">> THEN SubSeq(url, 1, Len(url) - 1) ELSE url

\* url === '/' ? '/' : url.replace(/\/+$/, '')
NormalizeUrl(url) == IF url = <<"/">> THEN url ELSE StripTrailingSlashes(url)

RECURSIVE JoinFrom(_, _)
\* segments.slice(index).join('/'), index counted from 1
JoinFrom(segments, index) ==
  IF index > Len(segments) THEN <<>>
  ELSE IF index = Len(segments) THEN segments[index]
  ELSE segments[index] \o <<"/">> \o JoinFrom(segments, index + 1)

RECURSIVE WordRunLen(_, _)
WordRunLen(seg, i) ==
  IF i <= Len(seg) /\ seg[i] \in WordChars THEN 1 + WordRunLen(seg, i + 1) ELSE 0

\* /^\[(\w+)(\??)]/ applied to one path segment
parsePattern(pattern) ==
  LET k == IF Len(pattern) >= 1 /\ pattern[1] = "[" THEN WordRunLen(pattern, 2) ELSE 0
      e == k + 2
      plain == e <= Len(pattern) /\ pattern[e] = "]"
      opt == e + 1 <= Len(pattern) /\ pattern[e] = "?" /\ pattern[e + 1] = "]"
  IN IF k >= 1 /\ (plain \/ opt)
     THEN [name |-> SubSeq(pattern, 2, k + 1), isParam |-> TRUE, isOptional |-> opt]
     ELSE [name |-> pattern, isParam |-> FALSE, isOptional |-> FALSE]

(***************************************************************************)
(* Record<string, Function[]>: entries in key insertion order.             *)
(***************************************************************************)
RecHas(rec, m) == \E i \in 1..Len(rec) : rec[i].m = m

RecGet(rec, m) ==
  IF RecHas(rec, m) THEN rec[CHOOSE i \in 1..Len(rec) : rec[i].m = m].fns ELSE <<>>

RecPush(rec, m, h) ==
  IF RecHas(rec, m)
  THEN [i \in 1..Len(rec) |-> IF rec[i].m = m THEN [rec[i] EXCEPT !.fns = Append(@, h)] ELSE rec[i]]
  ELSE Append(rec, [m |-> m, fns |-> <<h>>])

RecKeys(rec) == [i \in 1..Len(rec) |-> rec[i].m]

(***************************************************************************)
(* The trie.  A node is named by the edges leading to it; the static       *)
(* children of a node are the names in the domain one static edge below.   *)
(***************************************************************************)
StaticEdge(segment) == [p |-> FALSE, seg |-> segment]
ParamEdge == [p |-> TRUE, seg |-> <<>>]

createNode ==
  [handlers |-> <<>>, paramChild |-> <<>>, hasWildcard |-> FALSE,
   wildcardHandler |-> <<>>, isEndpoint |-> FALSE]

EmptyTrie == (<<>> :> createNode)

StaticChild(id, segment) == Append(id, StaticEdge(segment))
ParamChildNode(id) == Append(id, ParamEdge)

RECURSIVE AddWalk(_, _, _, _, _, _)
AddWalk(root, id, segments, i, method, handler) ==
  IF i > Len(segments)
  THEN [root |-> [root EXCEPT ![id].isEndpoint = TRUE,
                              ![id].handlers = RecPush(@, method, handler)],
        registeredEndpoint |-> TRUE]
  ELSE LET segment == segments[i]
           parsed == parsePattern(segment)
       IN IF parsed.isParam
          THEN LET r1 == IF root[id].paramChild = <<>>
                         THEN (ParamChildNode(id) :> createNode) @@
                              [root EXCEPT ![id].paramChild =
                                 <<[name |-> parsed.name, isOptional |-> parsed.isOptional]>>]
                         ELSE root
               IN AddWalk(r1, ParamChildNode(id), segments, i + 1, method, handler)
          ELSE IF segment = <<"*">>
          THEN [root |-> [root EXCEPT ![id].hasWildcard = TRUE,
                                      ![id].wildcardHandler = RecPush(@, method, handler)],
                registeredEndpoint |-> FALSE]
          ELSE LET r1 == IF StaticChild(id, segment) \in DOMAIN root
                         THEN root
                         ELSE (StaticChild(id, segment) :> createNode) @@ root
               IN AddWalk(r1, StaticChild(id, segment), segments, i + 1, method, handler)

\* Router.addRoute: the new trie, route count and cache
addRoute(root, count, cache, method, routePath, handler) ==
  LET w == AddWalk(root, <<>>, SplitSegments(routePath), 1, method, handler)
  IN IF w.registeredEndpoint
     THEN [root |-> w.root, count |-> count + 1, cache |-> <<>>]
     ELSE [root |-> w.root, count |-> count, cache |-> cache]

(***************************************************************************)
(* Matching.                                                               *)
(***************************************************************************)
NullResult == [isNull |-> TRUE, handlers |-> <<>>, params |-> <<>>, allowedMethods |-> <<>>]
MatchResult(h, p, a) == [isNull |-> FALSE, handlers |-> h, params |-> p, allowedMethods |-> a]

\* handlers for the method, then GET for HEAD, then the method-agnostic ones
EndpointHandlers(node, method) ==
  (IF RecHas(node.handlers, method) THEN RecGet(node.handlers, method) ELSE <<>>) \o
  (IF method = "HEAD" /\ RecHas(node.handlers, "GET") THEN RecGet(node.handlers, "GET") ELSE <<>>) \o
  (IF RecHas(node.handlers, "") THEN RecGet(node.handlers, "") ELSE <<>>)

AvailableMethods(rec) ==
  SelectSeq(RecKeys(rec), LAMBDA m : m # "" /\ Len(RecGet(rec, m)) > 0)

WithParam(params, k, v) == (k :> v) @@ params

\* the branch taken when index === segments.length
EndOfSegments(root, id, method, params) ==
  LET node == root[id]
      handlers == EndpointHandlers(node, method)
      optionalChild == node.paramChild # <<>> /\ node.paramChild[1].isOptional
                       /\ root[ParamChildNode(id)].isEndpoint
      childHandlers == IF optionalChild
                       THEN EndpointHandlers(root[ParamChildNode(id)], method)
                       ELSE <<>>
      availableMethods == AvailableMethods(node.handlers)
  IN IF node.isEndpoint /\ Len(handlers) > 0 THEN MatchResult(handlers, params, <<>>)
     ELSE IF optionalChild /\ Len(childHandlers) > 0 THEN MatchResult(childHandlers, params, <<>>)
     ELSE IF Len(availableMethods) > 0 THEN MatchResult(<<>>, params, availableMethods)
     ELSE NullResult

\* the slip segments.slice(index + 1): the segment at the wildcard position is lost
WildcardMatch_SkipFirst(node, segments, method, params, index) ==
  LET star == WithParam(params, <<"*">>, JoinFrom(segments, index + 1))
      availableMethods == AvailableMethods(node.wildcardHandler)
  IN IF node.hasWildcard /\ RecHas(node.wildcardHandler, method)
     THEN MatchResult(RecGet(node.wildcardHandler, method), star, <<>>)
     ELSE IF node.hasWildcard /\ RecHas(node.wildcardHandler, "")
     THEN MatchResult(RecGet(node.wildcardHandler, ""), star, <<>>)
     ELSE IF node.hasWildcard /\ Len(availableMethods) > 0
     THEN MatchResult(<<>>, star, availableMethods)
     ELSE NullResult

\* the wildcard part of findRouteRecursive
WildcardMatch(node, segments, method, params, index) ==
  LET star == WithParam(params, <<"*">>, JoinFrom(segments, index))
      availableMethods == AvailableMethods(node.wildcardHandler)
  IN IF node.hasWildcard /\ RecHas(node.wildcardHandler, method)
     THEN MatchResult(RecGet(node.wildcardHandler, method), star, <<>>)
     ELSE IF node.hasWildcard /\ RecHas(node.wildcardHandler, "")
     THEN MatchResult(RecGet(node.wildcardHandler, ""), star, <<>>)
     ELSE IF node.hasWildcard /\ Len(availableMethods) > 0
     THEN MatchResult(<<>>, star, availableMethods)
     ELSE NullResult

RECURSIVE findRouteRecursive(_, _, _, _, _, _)
findRouteRecursive(root, id, segments, method, params, index) ==
  IF index = Len(segments) + 1
  THEN EndOfSegments(root, id, method, params)
  ELSE LET node == root[id]
           segment == segments[index]
           viaStatic == IF StaticChild(id, segment) \in DOMAIN root
                        THEN findRouteRecursive(root, StaticChild(id, segment), segments,
                                                method, params, index + 1)
                        ELSE NullResult
           viaParam == IF node.paramChild # <<>>
                       THEN findRouteRecursive(root, ParamChildNode(id), segments, method,
                                               WithParam(params, node.paramChild[1].name, segment),
                                               index + 1)
                       ELSE NullResult
       IN IF ~viaStatic.isNull THEN viaStatic
          ELSE IF ~viaParam.isNull THEN viaParam
          ELSE WildcardMatch(node, segments, method, params, index)

StandardMethods == <<"GET", "POST", "PUT", "DELETE", "PATCH", "HEAD", "OPTIONS">>

\* the slip of probing only the methods the loader knows (no HEAD, no OPTIONS)
getAllowedMethods_LoaderMethods(root, url) ==
  SelectSeq(<<"GET", "POST", "PUT", "DELETE", "PATCH">>,
            LAMBDA m : LET r == findRouteRecursive(root, <<>>, SplitSegments(url), m, <<>>, 1)
                       IN ~r.isNull /\ Len(r.handlers) > 0)

\* Router.getAllowedMethods
getAllowedMethods(root, url) ==
  SelectSeq(StandardMethods,
            LAMBDA m : LET r == findRouteRecursive(root, <<>>, SplitSegments(url), m, <<>>, 1)
                       IN ~r.isNull /\ Len(r.handlers) > 0)

(***************************************************************************)
(* The route cache: entries in insertion order, keyed by method:url.       *)
(***************************************************************************)
CacheLimit == 1000
EvictBatch == 100

CacheKey(method, normalizedUrl) == <<method, normalizedUrl>>

CacheHas(cache, key) == \E i \in 1..Len(cache) : cache[i].key = key
CacheGet(cache, key) == cache[CHOOSE i \in 1..Len(cache) : cache[i].key = key].value
CacheSet(cache, key, value) ==
  IF CacheHas(cache, key)
  THEN [i \in 1..Len(cache) |-> IF cache[i].key = key THEN [key |-> key, value |-> value] ELSE cache[i]]
  ELSE Append(cache, [key |-> key, value |-> value])
\* an item of the list is one entry, or a run of n entries under keys that are
\* looked up once and never again
EntryCount(item) == IF "n" \in DOMAIN item THEN item.n ELSE 1

RECURSIVE CacheSize(_)
\* cachedRoutes.size
CacheSize(cache) == IF cache = <<>> THEN 0 ELSE EntryCount(Head(cache)) + CacheSize(Tail(cache))

RECURSIVE CacheDrop(_, _)
\* Array.from(cachedRoutes.keys()).slice(0, k).forEach(key => cachedRoutes.delete(key))
CacheDrop(cache, k) ==
  IF k = 0 \/ cache = <<>> THEN cache
  ELSE IF EntryCount(Head(cache)) <= k THEN CacheDrop(Tail(cache), k - EntryCount(Head(cache)))
  ELSE <<[Head(cache) EXCEPT !.n = @ - k]>> \o Tail(cache)

CacheEvict(cache) ==
  IF CacheSize(cache) > CacheLimit THEN CacheDrop(cache, EvictBatch) ELSE cache

\* the key of the entries of a run
OthersKey(method) == <<method, <<"others">>>>

\* cachedRoutes.set(cacheKey, value) for each of k keys not looked up before
CacheSetOthers(cache, method, value, k) ==
  IF k = 0 THEN cache
  ELSE IF cache # <<>> /\ cache[Len(cache)].key = OthersKey(method)
  THEN [cache EXCEPT ![Len(cache)].n = @ + k]
  ELSE Append(cache, [key |-> OthersKey(method), value |-> value, n |-> k])

RECURSIVE CacheAfterResults(_, _, _, _)
\* the cache after k lookups that end in the result branch of findRoute, each under
\* a key not looked up before: every call sets one entry and then tests the size
CacheAfterResults(cache, method, value, k) ==
  LET room == CacheLimit - CacheSize(cache)
  IN IF k <= room THEN CacheSetOthers(cache, method, value, k)
     ELSE IF room <= 0
     THEN CacheAfterResults(CacheEvict(CacheSetOthers(cache, method, value, 1)), method, value, k - 1)
     ELSE CacheAfterResults(CacheEvict(CacheSetOthers(cache, method, value, room + 1)),
                            method, value, k - (room + 1))

\* Router.findRoute: the value returned and the cache afterwards
RouterFindRoute(root, cache, method, url) ==
  LET normalizedUrl == NormalizeUrl(url)
      cacheKey == CacheKey(method, normalizedUrl)
  IN IF CacheHas(cache, cacheKey)
     THEN [result |-> CacheGet(cache, cacheKey), cache |-> cache]
     ELSE LET result == findRouteRecursive(root, <<>>, SplitSegments(normalizedUrl), method, <<>>, 1)
              noHandlers == result.isNull \/ Len(result.handlers) = 0
              allowedMethods == IF noHandlers THEN getAllowedMethods(root, normalizedUrl) ELSE <<>>
              methodNotAllowedResult == MatchResult(<<>>, <<>>, allowedMethods)
          IN IF noHandlers /\ Len(allowedMethods) > 0
             THEN [result |-> methodNotAllowedResult,
                   cache |-> CacheSet(cache, cacheKey, methodNotAllowedResult)]
             ELSE IF ~result.isNull
             THEN [result |-> result, cache |-> CacheEvict(CacheSet(cache, cacheKey, result))]
             ELSE [result |-> MatchResult(<<>>, <<>>, <<>>), cache |-> cache]

NotFound == [kind |-> "notfound", handler |-> 0, params |-> <<>>, allowedMethods |-> <<>>]

\* the exported findRoute(url, method): null, a 405 error, or handler and params
FindRouteOutcome(result) ==
  IF Len(result.handlers) = 0 /\ Len(result.allowedMethods) = 0 THEN NotFound
  ELSE IF Len(result.handlers) = 0
  THEN [kind |-> "methodNotAllowed", handler |-> 0, params |-> <<>>,
        allowedMethods |-> result.allowedMethods]
  ELSE [kind |-> "found", handler |-> result.handlers[1], params |-> result.params,
        allowedMethods |-> <<>>]

(***************************************************************************)
(* Inputs: path segments, route patterns, request urls, methods.           *)
(***************************************************************************)
SegA == <<"a">>
SegB == <<"b">>
SegC == <<"c">>
SegX == <<"[", "x", "]">>
SegY == <<"[", "y", "]">>
SegOptX == <<"[", "x", "?", "]">>
SegStar == <<"*">>
SegAQuery == <<"a", "?", "q">>

RECURSIVE PathOf(_)
\* '/' + segments.join('/')
PathOf(segs) == IF segs = <<>> THEN <<"/">> ELSE <<"/">> \o JoinFrom(segs, 1)

RoutePaths ==
  { PathOf(<<SegA>>), PathOf(<<SegX>>), PathOf(<<SegY, SegB>>),
    PathOf(<<SegA, SegStar>>), PathOf(<<SegX, SegStar>>), PathOf(<<SegA, SegOptX>>) }

RequestPaths ==
  { PathOf(<<SegA>>), PathOf(<<SegC>>), PathOf(<<SegC, SegB>>), PathOf(<<SegA, SegB, SegC>>) }

RequestUrls ==
  RequestPaths \cup { PathOf(<<SegA>>) \o <<"/">>, PathOf(<<SegAQuery>>) }

AddMethods == {"GET", "POST"}
LookupMethods == {"GET", "POST", "HEAD"}

SegXb == <<"[", "x", "]", "b">>

\* the routes directory: one entry per directory holding an index module, in the
\* order scanDir visits them, with the names that module exports
TreeEmpty == <<>>
TreeSmall == << [dir |-> <<SegA>>, exports |-> {"GET"}] >>
TreeFull ==
  << [dir |-> <<SegA>>, exports |-> {"GET", "POST"}],
     [dir |-> <<SegC, SegB>>, exports |-> {"default"}] >>
TreeParam ==
  << [dir |-> <<SegXb>>, exports |-> {"POST", "default"}],
     [dir |-> <<SegA>>, exports |-> {"GET"}],
     [dir |-> <<SegA, SegStar>>, exports |-> {"GET"}] >>
Trees == {TreeEmpty, TreeSmall, TreeFull, TreeParam}

NoLookup ==
  [valid |-> FALSE, method |-> "", url |-> <<>>, fromCache |-> FALSE, outcome |-> NotFound]

(***************************************************************************)
(* Actions.                                                                *)
(***************************************************************************)
\* router.addRoute(method, routePath, handler) with a fresh handler function
AddRoute(method, routePath) ==
  /\ loadPc = "idle"
  /\ Len(registered) < MaxRoutes
  /\ LET handler == Len(registered) + 1
         r == addRoute(rootNode, routeCount, cachedRoutes, method, routePath, handler)
     IN /\ rootNode' = r.root
        /\ routeCount' = r.count
        /\ cachedRoutes' = r.cache
        /\ registered' = Append(registered, [method |-> method, path |-> routePath])
  /\ lastLookup' = NoLookup
  /\ UNCHANGED <<loadPc, scanQueue, disk, scanned, before>>
  /\ UNCHANGED <<dispatchVars, balancerVars, shutdownVars, extraVars>>

\* findRoute(url, method), as the request listener calls it
FindRoute(method, url) ==
  LET r == RouterFindRoute(rootNode, cachedRoutes, method, url)
  IN /\ Len(r.cache) <= MaxCached
     /\ cachedRoutes' = r.cache
     /\ lastLookup' = [valid |-> TRUE, method |-> method, url |-> url,
                       fromCache |-> CacheHas(cachedRoutes, CacheKey(method, NormalizeUrl(url))),
                       outcome |-> FindRouteOutcome(r.result)]
     /\ UNCHANGED <<rootNode, routeCount, registered, loadPc, scanQueue, disk, scanned, before>>
     /\ UNCHANGED <<dispatchVars, balancerVars, shutdownVars, extraVars>>

\* a request segment that is no literal of any route: one of the values a parameter takes
SegOther == <<"q", "q">>

\* the branch of findRoute a lookup not served from the cache ends in
LookupBranch(root, method, url) ==
  LET normalizedUrl == NormalizeUrl(url)
      result == findRouteRecursive(root, <<>>, SplitSegments(normalizedUrl), method, <<>>, 1)
      noHandlers == result.isNull \/ Len(result.handlers) = 0
  IN IF noHandlers /\ Len(getAllowedMethods(root, normalizedUrl)) > 0 THEN "methodNotAllowed"
     ELSE IF ~result.isNull THEN "result"
     ELSE "none"

\* findRoute(url, method) for each of n urls that differ in a parameter value and are
\* looked up this once
LookupOthers(method, n) ==
  /\ \E probe \in {RouterFindRoute(rootNode, <<>>, method, PathOf(<<SegOther>>))},
        branch \in {LookupBranch(rootNode, method, PathOf(<<SegOther>>))} :
        /\ branch # "none"
        /\ cachedRoutes' =
             IF branch = "methodNotAllowed"
             THEN CacheSetOthers(cachedRoutes, method, probe.result, n)
             ELSE CacheAfterResults(cachedRoutes, method, probe.result, n)
        /\ lastLookup' = [valid |-> TRUE, method |-> method, url |-> PathOf(<<SegOther>>),
                          fromCache |-> FALSE, outcome |-> FindRouteOutcome(probe.result)]
  /\ CacheSize(cachedRoutes) <= CacheLimit
  /\ Len(cachedRoutes') <= MaxRuns
  /\ UNCHANGED <<rootNode, routeCount, registered, loadPc, scanQueue, disk, scanned, before>>
  /\ UNCHANGED <<dispatchVars, balancerVars, shutdownVars, extraVars>>

\* scanDir: a directory called [name] or [name?]... gives that parameter segment
SegmentName(dirName) ==
  LET paramMatch == parsePattern(dirName)
  IN IF paramMatch.isParam
     THEN <<"[">> \o paramMatch.name \o (IF paramMatch.isOptional THEN <<"?">> ELSE <<>>) \o <<"]">>
     ELSE dirName

ModuleRoutePath(module) == PathOf([i \in 1..Len(module.dir) |-> SegmentName(module.dir[i])])

\* the methods scanDir registers for a module, in Object.entries order
ModuleMethods(module) ==
  SelectSeq(<<"GET", "POST", "PUT", "DELETE", "PATCH">>, LAMBDA m : m \in module.exports)
  \o (IF "default" \in module.exports /\ "GET" \notin module.exports THEN <<"GET">> ELSE <<>>)

RECURSIVE AddModuleRoutes(_, _, _, _)
\* Object.entries(handlers).forEach(([method, handler]) => self.addRoute(...))
AddModuleRoutes(st, methods, routePath, i) ==
  IF i > Len(methods) THEN st
  ELSE LET r == addRoute(st.root, st.count, st.cache, methods[i], routePath, Len(st.registered) + 1)
       IN AddModuleRoutes([root |-> r.root, count |-> r.count, cache |-> r.cache,
                           registered |-> Append(st.registered,
                                                 [method |-> methods[i], path |-> routePath])],
                          methods, routePath, i + 1)

(***************************************************************************)
(* The middleware pipeline (src/src/core/middleware.ts).  A hook is the    *)
(* thing it does when called: "continue" (returns anything but false),     *)
(* "false" (returns false), "throw", or "timeout" (the timeoutMiddleware   *)
(* of utils/timeout.ts, which arms a timer and returns undefined).         *)
(***************************************************************************)
MaxHooks == 2
MaxRequests == 2

Phases == {"beforeRequest", "afterRequest", "onError"}

NoMiddlewares == [beforeRequest |-> <<>>, afterRequest |-> <<>>, onError |-> <<>>]

\* globalMiddlewares[MiddlewareName].push(callback)
addMiddleware(reg, MiddlewareName, callback) ==
  [reg EXCEPT ![MiddlewareName] = Append(@, callback)]

RECURSIVE Pathname(_)
\* new URL(req.url, base).pathname: the url without its query
Pathname(url) ==
  IF url = <<>> \/ Head(url) \in {"?", "#"} THEN <<>> ELSE <<Head(url)>> \o Pathname(Tail(url))

EndsWithSlash(s) == s # <<>> /\ s[Len(s)] = "/"
StartsWith(s, prefix) == Len(prefix) <= Len(s) /\ SubSeq(s, 1, Len(prefix)) = prefix

\* isPathApplicable, lines 49-57: the computation behind its memo table
isPathApplicable(middlewarePath, requestPath) ==
  LET normalizedMiddlewarePath ==
        IF EndsWithSlash(middlewarePath) THEN middlewarePath ELSE middlewarePath \o <<"/">>
      normalizedRequestPath ==
        IF EndsWithSlash(requestPath) THEN requestPath ELSE requestPath \o <<"/">>
  IN IF normalizedMiddlewarePath = <<"/">> THEN TRUE
     ELSE StartsWith(normalizedRequestPath, normalizedMiddlewarePath)

\* one step of the stable sort (a, b) => b.length - a.length
InsertByLength(sorted, p) ==
  LET k == Cardinality({i \in 1..Len(sorted) : Len(sorted[i]) >= Len(p)})
  IN SubSeq(sorted, 1, k) \o <<p>> \o SubSeq(sorted, k + 1, Len(sorted))

RECURSIVE SortPaths(_, _, _)
SortPaths(paths, i, sorted) ==
  IF i > Len(paths) THEN sorted ELSE SortPaths(paths, i + 1, InsertByLength(sorted, paths[i]))

\* the slip of leaving the keys in insertion order
sortedPaths_Unsorted(pms) == [i \in 1..Len(pms) |-> pms[i].path]

\* Array.from(pathMiddlewares.keys()).sort(...)
sortedPaths(pms) == SortPaths([i \in 1..Len(pms) |-> pms[i].path], 1, <<>>)

PathEntry(pms, path) == pms[CHOOSE i \in 1..Len(pms) : pms[i].path = path]

\* what the listener did, in order: one record per step
\* the context argument of a call without one
NoContext == [error |-> <<>>, phase |-> ""]
Ev(ev) ==
  [ev |-> ev, phase |-> "", scope |-> "", path |-> <<>>, idx |-> 0, does |-> "",
   context |-> NoContext]
HookEvent(phase, scope, path, idx, does) ==
  [ev |-> "hook", phase |-> phase, scope |-> scope, path |-> path, idx |-> idx, does |-> does,
   context |-> NoContext]
\* runMiddlewares was called for a phase
PhaseEvent(phase) == [Ev("run") EXCEPT !.phase = phase]

\* the values a hook returns that JavaScript takes for false in a condition
FalsyResults == {"false", "undefined", "null", "0", ""}

\* the value the awaited call of a hook yields, for a hook that returns
HookResult(hook) ==
  CASE hook = "continue" -> "true"
    [] hook = "false" -> "false"
    [] hook = "null" -> "null"
    [] hook = "zero" -> "0"
    [] hook = "empty" -> ""
    [] OTHER -> "undefined"

\* the slip of testing !result
Halts_Falsy(result) == result \in FalsyResults

\* result === false
Halts(result) == result = "false"

RECURSIVE RunList(_, _, _, _, _)
\* for (const Middleware of list): the first hook returning false or throwing ends the loop
RunList(hooks, phase, scope, path, i) ==
  IF i > Len(hooks) THEN [out |-> "continue", log |-> <<>>]
  ELSE LET e == HookEvent(phase, scope, path, i, hooks[i])
       IN IF hooks[i] = "throw" THEN [out |-> "throw", log |-> <<e>>]
          ELSE IF Halts(HookResult(hooks[i])) THEN [out |-> "false", log |-> <<e>>]
          ELSE LET rest == RunList(hooks, phase, scope, path, i + 1)
               IN [out |-> rest.out, log |-> <<e>> \o rest.log]

RECURSIVE runMiddlewares(_, _, _, _)
RECURSIVE CatchHookError(_, _, _, _, _)
RECURSIVE RunPaths_IgnoreFalse(_, _, _, _, _, _)
RECURSIVE RunPaths(_, _, _, _, _, _)

\* the error a hook threw: the hook that threw it
ThrownBy(e) == <<e.scope, e.path, e.idx>>

\* the slip of passing the error without the name of the phase
ErrorContext_NoPhase(MiddlewareName, e) == [error |-> ThrownBy(e), phase |-> ""]

\* { error, phase: MiddlewareName }, the context of the onError run
ErrorContext(MiddlewareName, e) == [error |-> ThrownBy(e), phase |-> MiddlewareName]

\* the slip of rethrowing what an onError hook threw
CatchRejects_Rethrow(MiddlewareName, nested) == MiddlewareName = "onError" \/ nested

\* whether the catch block lets an exception out: only one of the awaited onError run
CatchRejects(MiddlewareName, nested) == MiddlewareName # "onError" /\ nested

\* the catch block of either loop, log being the hooks called up to the one that
\* threw: unless the phase is onError, runMiddlewares("onError", req, res, context)
\* is awaited; then return false
CatchHookError(MiddlewareName, reg, pms, urlPath, log) ==
  IF MiddlewareName # "onError"
  THEN LET r == runMiddlewares("onError", reg, pms, urlPath)
       IN [continue |-> FALSE,
           rejects |-> CatchRejects(MiddlewareName, r.rejects),
           log |-> log \o <<[Head(r.log) EXCEPT
                               !.context = ErrorContext(MiddlewareName, log[Len(log)])]>>
                       \o Tail(r.log)]
  ELSE [continue |-> FALSE, rejects |-> CatchRejects(MiddlewareName, FALSE), log |-> log]

\* the slip of going on to the next path after a hook returned false
RunPaths_IgnoreFalse(MiddlewareName, reg, pms, paths, urlPath, k) ==
  IF k > Len(paths) THEN [continue |-> TRUE, rejects |-> FALSE, log |-> <<>>]
  ELSE IF ~isPathApplicable(paths[k], urlPath)
  THEN RunPaths_IgnoreFalse(MiddlewareName, reg, pms, paths, urlPath, k + 1)
  ELSE LET r == RunList(PathEntry(pms, paths[k])[MiddlewareName], MiddlewareName, "path", paths[k], 1)
       IN IF r.out = "throw"
          THEN CatchHookError(MiddlewareName, reg, pms, urlPath, r.log)
          ELSE LET rest == RunPaths_IgnoreFalse(MiddlewareName, reg, pms, paths, urlPath, k + 1)
               IN [continue |-> rest.continue, rejects |-> rest.rejects, log |-> r.log \o rest.log]

\* runMiddlewares, second loop: the path-scoped hooks, longest path first
RunPaths(MiddlewareName, reg, pms, paths, urlPath, k) ==
  IF k > Len(paths) THEN [continue |-> TRUE, rejects |-> FALSE, log |-> <<>>]
  ELSE IF ~isPathApplicable(paths[k], urlPath)
  THEN RunPaths(MiddlewareName, reg, pms, paths, urlPath, k + 1)
  ELSE LET r == RunList(PathEntry(pms, paths[k])[MiddlewareName], MiddlewareName, "path", paths[k], 1)
       IN IF r.out = "false" THEN [continue |-> FALSE, rejects |-> FALSE, log |-> r.log]
          ELSE IF r.out = "throw"
          THEN CatchHookError(MiddlewareName, reg, pms, urlPath, r.log)
          ELSE LET rest == RunPaths(MiddlewareName, reg, pms, paths, urlPath, k + 1)
               IN [continue |-> rest.continue, rejects |-> rest.rejects, log |-> r.log \o rest.log]

\* runMiddlewares(MiddlewareName, req, res): the value it resolves to, whether it
\* rejects instead, and the hooks it ran
runMiddlewares(MiddlewareName, reg, pms, urlPath) ==
  LET g == RunList(reg[MiddlewareName], MiddlewareName, "global", <<>>, 1)
      start == <<PhaseEvent(MiddlewareName)>>
  IN IF g.out = "false" THEN [continue |-> FALSE, rejects |-> FALSE, log |-> start \o g.log]
     ELSE IF g.out = "throw"
     THEN LET c == CatchHookError(MiddlewareName, reg, pms, urlPath, g.log)
          IN [continue |-> c.continue, rejects |-> c.rejects, log |-> start \o c.log]
     ELSE LET p == RunPaths(MiddlewareName, reg, pms, sortedPaths(pms), urlPath, 1)
          IN [continue |-> p.continue, rejects |-> p.rejects, log |-> start \o g.log \o p.log]

\* Array.isArray(x) ? x : x ? [x] : []
HookList(export) ==
  IF export.shape = "array" THEN export.fns
  ELSE IF export.shape = "single" THEN <<export.fn>>
  ELSE <<>>

RECURSIVE MapSet(_, _)
\* pathMiddlewares.set(prefix, entry)
MapSet(pms, entry) ==
  IF \E i \in 1..Len(pms) : pms[i].path = entry.path
  THEN [i \in 1..Len(pms) |-> IF pms[i].path = entry.path THEN entry ELSE pms[i]]
  ELSE Append(pms, entry)

RECURSIVE ScanMiddlewares(_, _, _)
ScanMiddlewares(files, i, pms) ==
  IF i > Len(files) THEN pms
  ELSE ScanMiddlewares(files, i + 1,
         MapSet(pms, [path |-> files[i].prefix,
                      beforeRequest |-> HookList(files[i].beforeRequest),
                      afterRequest |-> HookList(files[i].afterRequest),
                      onError |-> HookList(files[i].onError)]))

\* loadMiddlewares(routesDir) on a directory holding the +middleware modules files
loadMiddlewares(files) == ScanMiddlewares(files, 1, <<>>)

(***************************************************************************)
(* The Node request listener (src/src/adapters/node.ts).                   *)
(***************************************************************************)
NoConfig ==
  [listening |-> FALSE, defaultHeaders |-> FALSE,
   beforeRequest |-> "none", afterRequest |-> "none", onError |-> "none"]

NoResponse == [sent |-> FALSE, status |-> 200, body |-> [none |-> TRUE], headers |-> {}]

\* res.status(code).json(data)
Json(res, code, data) ==
  [sent |-> TRUE, status |-> code, body |-> data, headers |-> res.headers \cup {"Content-Type"}]

Unresolved == [kind |-> "unresolved", handler |-> 0, params |-> <<>>, allowedMethods |-> <<>>]

\* the hook of config.globalMiddlewares for a phase, if the config has one
ConfigHook(cfg, phase) ==
  IF cfg[phase] = "none" THEN <<>> ELSE <<HookEvent(phase, "config", <<>>, 1, cfg[phase])>>

ListenerEnd(log, res, reg, cache, route, escaped) ==
  [log |-> log, res |-> res, globalMiddlewares |-> reg, cache |-> cache,
   route |-> route, escaped |-> escaped]

\* the slip of running the afterRequest hooks on the error path as well
ListenerCatch_RunsAfter(cfg, pms, urlPath, log, res, reg, cache, route) ==
  LET a == runMiddlewares("afterRequest", reg, pms, urlPath)
      l1 == log \o a.log \o ConfigHook(cfg, "onError")
  IN IF cfg.onError = "throw" THEN ListenerEnd(l1, res, reg, cache, route, TRUE)
     ELSE IF cfg.onError = "false" THEN ListenerEnd(l1, res, reg, cache, route, FALSE)
     ELSE LET r == runMiddlewares("onError", reg, pms, urlPath)
          IN ListenerEnd(l1 \o r.log,
                         IF res.sent THEN res
                         ELSE Json(res, 500, [error |-> "Internal Server Error"]),
                         reg, cache, route, FALSE)

\* requestListener, the catch block
ListenerCatch(cfg, pms, urlPath, log, res, reg, cache, route) ==
  LET l1 == log \o ConfigHook(cfg, "onError")
  IN IF cfg.onError = "throw" THEN ListenerEnd(l1, res, reg, cache, route, TRUE)
     ELSE IF cfg.onError = "false" THEN ListenerEnd(l1, res, reg, cache, route, FALSE)
     ELSE LET r == runMiddlewares("onError", reg, pms, urlPath)
          IN ListenerEnd(l1 \o r.log,
                         IF res.sent THEN res
                         ELSE Json(res, 500, [error |-> "Internal Server Error"]),
                         reg, cache, route, FALSE)

\* requestListener from the handler's return on: the afterRequest phase
ListenerAfter(cfg, pms, urlPath, log, res, reg, cache, route) ==
  LET l1 == log \o ConfigHook(cfg, "afterRequest")
  IN IF cfg.afterRequest = "throw" THEN ListenerCatch(cfg, pms, urlPath, l1, res, reg, cache, route)
     ELSE IF cfg.afterRequest = "false" THEN ListenerEnd(l1, res, reg, cache, route, FALSE)
     ELSE LET a == runMiddlewares("afterRequest", reg, pms, urlPath)
          IN ListenerEnd(l1 \o a.log, res, reg, cache, route, FALSE)

\* requestListener once findRoute returned: found.route is its result, found.cache the route cache
ListenerRouted(cfg, pms, urlPath, log, res, reg, found, handlerDoes) ==
  LET l1 == log \o <<Ev("findRoute")>>
  IN IF found.route.kind = "notfound"
     THEN ListenerEnd(l1, Json(res, 404, [error |-> "Route not found"]), reg, found.cache,
                      found.route, FALSE)
     ELSE IF found.route.kind = "methodNotAllowed"
     THEN ListenerEnd(l1, Json(res, 405, [error |-> "Method Not Allowed"]), reg, found.cache,
                      found.route, FALSE)
     ELSE LET l2 == l1 \o <<[Ev("handler") EXCEPT !.idx = found.route.handler, !.does = handlerDoes]>>
              res1 == IF handlerDoes \in {"respond", "respondThrow"}
                      THEN Json(res, 200, [data |-> "ok"]) ELSE res
          IN IF handlerDoes \in {"throw", "respondThrow"}
             THEN ListenerCatch(cfg, pms, urlPath, l2, res1, reg, found.cache, found.route)
             ELSE ListenerAfter(cfg, pms, urlPath, l2, res1, reg, found.cache, found.route)

\* what the listener reads of the exported findRoute's return
ListenerLookup(f) == [cache |-> f.cache, route |-> FindRouteOutcome(f.result)]

\* requestListener from findRoute on
ListenerRoute(cfg, pms, urlPath, log, res, reg, root, cache, method, url, handlerDoes) ==
  ListenerRouted(cfg, pms, urlPath, log, res, reg,
                 ListenerLookup(RouterFindRoute(root, cache, method, url)), handlerDoes)

DefaultHeaderNames == {"X-Powered-By"}

\* requestListener(req, res) for a request (method, url) whose handler does handlerDoes
requestListener(cfg, reg, pms, root, cache, method, url, handlerDoes) ==
  LET urlPath == Pathname(url)
      res0 == [NoResponse EXCEPT
                 !.headers = {"Connection", "Keep-Alive"}
                             \cup (IF cfg.defaultHeaders THEN DefaultHeaderNames ELSE {})]
      l0 == IF cfg.defaultHeaders THEN <<Ev("defaultHeaders")>> ELSE <<>>
      l1 == l0 \o ConfigHook(cfg, "beforeRequest")
  IN IF cfg.beforeRequest = "throw"
     THEN ListenerCatch(cfg, pms, urlPath, l1, res0, reg, cache, Unresolved)
     ELSE IF cfg.beforeRequest = "false"
     THEN ListenerEnd(l1, res0, reg, cache, Unresolved, FALSE)
     ELSE LET b == runMiddlewares("beforeRequest", reg, pms, urlPath)
              l2 == l1 \o b.log
          IN IF ~b.continue THEN ListenerEnd(l2, res0, reg, cache, Unresolved, FALSE)
             ELSE ListenerRoute(cfg, pms, urlPath, l2, res0,
                                addMiddleware(reg, "beforeRequest", "timeout"),
                                root, cache, method, url, handlerDoes)

(***************************************************************************)
(* Inputs of the dispatcher.                                               *)
(***************************************************************************)
ConfigHooks == {"continue", "false", "throw"}

\* server configurations: default headers or not, and at most one config-level hook
Configs ==
  { c \in [listening : {TRUE}, defaultHeaders : BOOLEAN,
           beforeRequest : ConfigHooks \cup {"none"},
           afterRequest : ConfigHooks \cup {"none"},
           onError : ConfigHooks \cup {"none"}] :
      /\ Cardinality({p \in Phases : c[p] # "none"}) <= 1
      /\ (~c.defaultHeaders => \A p \in Phases : c[p] = "none")
      /\ c.beforeRequest # "continue" /\ c.afterRequest # "false" }

Absent == [shape |-> "absent"]
Single(fn) == [shape |-> "single", fn |-> fn]
Array(fns) == [shape |-> "array", fns |-> fns]

\* +middleware modules of a routes directory, in scan order
FilesNone == <<>>
FilesLayered ==
  << [prefix |-> <<"/">>, beforeRequest |-> Single("continue"),
      afterRequest |-> Single("continue"), onError |-> Single("continue")],
     [prefix |-> <<"/", "a">>, beforeRequest |-> Array(<<"continue", "false">>),
      afterRequest |-> Absent, onError |-> Absent] >>
FilesThrowing ==
  << [prefix |-> <<"/", "a">>, beforeRequest |-> Single("continue"),
      afterRequest |-> Array(<<"throw", "continue">>), onError |-> Single("throw")] >>
MiddlewareFiles == {FilesNone, FilesLayered, FilesThrowing}

AddableHooks ==
  { <<"beforeRequest", "false">>, <<"beforeRequest", "throw">>,
    <<"afterRequest", "throw">>, <<"onError", "continue">> }

HandlerBehaviours == {"respond", "throw", "respondThrow"}
RequestMethods == {"GET", "POST"}
DispatchUrls == { PathOf(<<SegA>>), PathOf(<<SegC>>) }

NoRequest ==
  [valid |-> FALSE, method |-> "", url |-> <<>>, log |-> <<>>, res |-> NoResponse,
   route |-> Unresolved, escaped |-> FALSE, registryBefore |-> NoMiddlewares]

RECURSIVE LoadAll(_, _)
\* the module a +middleware file yields under the prefix scanDir computes for its directory
MiddlewareModule(file) ==
  [prefix |-> PathOf(file.dir), beforeRequest |-> file.beforeRequest,
   afterRequest |-> file.afterRequest, onError |-> file.onError]

\* the slip of leaving the cache to the addRoute calls of the scan
StartLoad_KeepCache ==
  /\ loadPc = "idle"
  /\ rootNode' = EmptyTrie
  /\ routeCount' = 0
  /\ before' = registered
  /\ registered' = <<>>
  /\ loadPc' = "middlewares"
  /\ lastLookup' = NoLookup
  /\ pathMiddlewares' = <<>>
  /\ UNCHANGED <<cachedRoutes, scanQueue, disk, scanned>>
  /\ UNCHANGED <<requestVars, balancerVars, shutdownVars, extraVars>>

\* loadRoutes up to its first await: a new root, an empty cache
loadRoutesBegins ==
  /\ loadPc = "idle"
  /\ rootNode' = EmptyTrie
  /\ cachedRoutes' = <<>>
  /\ routeCount' = 0
  /\ before' = registered
  /\ registered' = <<>>
  /\ loadPc' = "middlewares"
  /\ lastLookup' = NoLookup
  /\ pathMiddlewares' = <<>>
  /\ UNCHANGED <<scanQueue, disk, scanned>>
  /\ UNCHANGED <<requestVars, balancerVars, shutdownVars, timeoutVars, directoryVars, phaseVars, serviceVars>>

\* loadRoutes called by the application
StartLoad ==
  /\ loadRoutesBegins
  /\ UNCHANGED watcherVars

\* await loadMiddlewares(routesDir) returns; scanDir reads the directory
MiddlewaresLoaded ==
  /\ loadPc = "middlewares"
  /\ loadPc' = "scanning"
  /\ scanQueue' = disk
  /\ scanned' = disk
  /\ pathMiddlewares' =
       loadMiddlewares([i \in 1..Len(middlewareDisk) |-> MiddlewareModule(middlewareDisk[i])])
  /\ UNCHANGED <<rootNode, cachedRoutes, routeCount, registered, lastLookup, disk, before>>
  /\ UNCHANGED <<requestVars, balancerVars, shutdownVars, extraVars>>

\* await import(...) of one index module returns; its handlers are registered
ImportModule ==
  /\ loadPc = "scanning"
  /\ scanQueue # <<>>
  /\ \E st \in {AddModuleRoutes([root |-> rootNode, count |-> routeCount,
                                  cache |-> cachedRoutes, registered |-> registered],
                                 ModuleMethods(Head(scanQueue)),
                                 ModuleRoutePath(Head(scanQueue)), 1)} :
        /\ rootNode' = st.root
        /\ routeCount' = st.count
        /\ cachedRoutes' = st.cache
        /\ registered' = st.registered
  /\ scanQueue' = Tail(scanQueue)
  /\ lastLookup' = NoLookup
  /\ UNCHANGED <<loadPc, disk, scanned, before>>
  /\ UNCHANGED <<dispatchVars, balancerVars, shutdownVars, extraVars>>

\* await scanDir(routesDir) returns; loadRoutes resolves
loadRoutesResolves ==
  /\ loadPc = "scanning"
  /\ scanQueue = <<>>
  /\ loadPc' = "idle"
  /\ lastLookup' = NoLookup
  /\ UNCHANGED <<rootNode, cachedRoutes, routeCount, registered, scanQueue, disk, scanned, before>>
  /\ UNCHANGED <<dispatchVars, balancerVars, shutdownVars, timeoutVars, directoryVars, phaseVars, serviceVars>>

\* the loadRoutes the application called resolves
LoadDone ==
  /\ loadRoutesResolves
  /\ UNCHANGED watcherVars

\* the routes directory is edited between reloads
DiskChange(tree) ==
  /\ loadPc = "idle"
  /\ tree # disk
  /\ disk' = tree
  /\ UNCHANGED <<rootNode, cachedRoutes, routeCount, registered, lastLookup, loadPc,
                 scanQueue, scanned, before>>
  /\ UNCHANGED <<dispatchVars, balancerVars, shutdownVars, extraVars>>

\* scanDir over the whole directory: every index module imported and registered
LoadAll(st, queue) ==
  IF queue = <<>> THEN st
  ELSE LoadAll(AddModuleRoutes(st, ModuleMethods(Head(queue)), ModuleRoutePath(Head(queue)), 1),
               Tail(queue))

\* createHandler(routesDir)(config) on a directory holding the index modules tree
\* and the +middleware modules files: loadRoutes, then the server listens
Serve(cfg, files, tree) ==
  /\ ~config.listening
  /\ ~shutdownArmed
  /\ loadPc = "idle"
  /\ LET st == LoadAll([root |-> EmptyTrie, count |-> 0, cache |-> <<>>, registered |-> <<>>], tree)
     IN /\ rootNode' = st.root
        /\ routeCount' = st.count
        /\ cachedRoutes' = st.cache
        /\ registered' = st.registered
  /\ before' = registered
  /\ scanned' = tree
  /\ lastLookup' = NoLookup
  /\ pathMiddlewares' = loadMiddlewares(files)
  /\ config' = cfg
  /\ UNCHANGED <<loadPc, scanQueue>>
  /\ shutdownArmed' = TRUE
  /\ accepting' = TRUE
  /\ UNCHANGED <<isWorker, isShuttingDown, shutdownPc, connections, destroyed,
                 forceShutdownTimeout, connectionCloseTimeout, checkInterval, clock, signalAt>>
  /\ UNCHANGED processVars
  /\ UNCHANGED <<globalMiddlewares, lastRequest, requestCount, rejections>>
  /\ UNCHANGED <<balancerVars, timeoutVars, watcherVars, phaseVars, serviceVars>>

\* createHandler(routesDir)(config): loadRoutes, then the server listens
CreateHandler(cfg, files) ==
  /\ Serve(cfg, files, disk)
  /\ UNCHANGED <<disk, directoryVars>>

\* createHandler(routesDir)(config) on a routes directory written as project says
CreateHandlerIn(cfg, project) ==
  /\ disk' = project.routes
  /\ middlewareDisk' = project.middlewares
  /\ UNCHANGED inflight
  /\ Serve(cfg, [i \in 1..Len(project.middlewares) |-> MiddlewareModule(project.middlewares[i])],
           project.routes)

\* addMiddleware(MiddlewareName, callback), called by the application
AddMiddleware(MiddlewareName, callback) ==
  /\ Len(globalMiddlewares.beforeRequest) + Len(globalMiddlewares.afterRequest)
       + Len(globalMiddlewares.onError) < MaxHooks
  /\ globalMiddlewares' = addMiddleware(globalMiddlewares, MiddlewareName, callback)
  /\ UNCHANGED <<config, pathMiddlewares, lastRequest, requestCount, rejections>>
  /\ UNCHANGED <<routerVars, balancerVars, shutdownVars, extraVars>>

\* a request arrives and requestListener runs to its end
Request(method, url, handlerDoes) ==
  /\ config.listening
  /\ accepting
  /\ requestCount < MaxRequests
  /\ \E r \in {requestListener(config, globalMiddlewares, pathMiddlewares,
                                rootNode, cachedRoutes, method, url, handlerDoes)} :
        /\ Len(r.cache) <= MaxCached
        /\ globalMiddlewares' = r.globalMiddlewares
        /\ cachedRoutes' = r.cache
        /\ lastRequest' = [valid |-> TRUE, method |-> method, url |-> url, log |-> r.log,
                           res |-> r.res, route |-> r.route, escaped |-> r.escaped,
                           registryBefore |-> globalMiddlewares]
        /\ rejections' = rejections + (IF r.escaped THEN 1 ELSE 0)
  /\ requestCount' = requestCount + 1
  /\ UNCHANGED <<config, pathMiddlewares>>
  /\ UNCHANGED <<rootNode, routeCount, registered, lastLookup, loadPc, scanQueue, disk,
                 scanned, before>>
  /\ UNCHANGED <<balancerVars, shutdownVars, extraVars>>

(***************************************************************************)
(* The load balancer (utils/loadBalancer, createLoadBalancer) and the      *)
(* worker pool the primary keeps with it (node.ts, cluster branch).        *)
(* state is the closure's state record; the sticky Map is kept as its      *)
(* entries in insertion order, where a run of n entries of clients that    *)
(* are never looked up again is one item with that n.                      *)
(***************************************************************************)
MaxWorkers == 2
MaxExits == 1
MaxBursts == 10

StickyLimit == 10000
StickyEvictBatch == 1000
Infinity == 1000000

Algorithms == {"round-robin", "least-connections", "least-cpu", "fastest-response"}

\* a client identifier seen once and never again
Other == "other"
Clients == {"c1", "c2"}

NoState ==
  [workers |-> <<>>, workerIds |-> <<>>, currentWorkerIndex |-> 0,
   options |-> [algorithm |-> "least-connections", stickySessions |-> FALSE],
   sticky |-> <<>>]

\* state.workers.delete(id)
MapDelete(workers, id) == [w \in DOMAIN workers \ {id} |-> workers[w]]
\* state.workers.set(id, stats)
MapPut(workers, id, stats) == [w \in DOMAIN workers \cup {id} |-> IF w = id THEN stats ELSE workers[w]]

\* forkWorker() for the worker cluster.fork() returned: a record and a list entry
forkWorker(st, id) ==
  [st EXCEPT !.workers = MapPut(@, id, [load |-> 0, connections |-> 0, lastUsed |-> 0]),
             !.workerIds = Append(@, id)]

RECURSIVE ForkWorkers(_, _, _)
\* for (let i = 0; i < numWorkers; i++) forkWorker()
ForkWorkers(st, id, n) ==
  IF n = 0 THEN st ELSE ForkWorkers(forkWorker(st, id), id + 1, n - 1)

\* updateWorkerStats: Object.assign on the record, if there is one
updateWorkerStats(st, workerId, stats) ==
  IF workerId \in DOMAIN st.workers
  THEN [st EXCEPT !.workers[workerId] =
          [load |-> stats.load, connections |-> stats.connections, lastUsed |-> stats.lastUsed]]
  ELSE st

\* the slip of advancing the index by two
getRoundRobinWorker_SkipOne(st) ==
  LET next == (st.currentWorkerIndex + 2) % Len(st.workerIds)
  IN [state |-> [st EXCEPT !.currentWorkerIndex = next], selected |-> st.workerIds[next + 1]]

\* getRoundRobinWorker: the index is zero-based
getRoundRobinWorker(st) ==
  LET next == (st.currentWorkerIndex + 1) % Len(st.workerIds)
  IN [state |-> [st EXCEPT !.currentWorkerIndex = next], selected |-> st.workerIds[next + 1]]

RECURSIVE ScanMin(_, _, _, _, _)
\* the loop of getLeast...Worker: the first worker whose figure is below all before it
ScanMin(st, field, i, min, selected) ==
  IF i > Len(st.workerIds) THEN selected
  ELSE LET workerId == st.workerIds[i]
       IN IF workerId \in DOMAIN st.workers /\ st.workers[workerId][field] < min
          THEN ScanMin(st, field, i + 1, st.workers[workerId][field], workerId)
          ELSE ScanMin(st, field, i + 1, min, selected)

getLeastConnectionsWorker(st) == ScanMin(st, "connections", 1, Infinity, st.workerIds[1])
\* the slip of scanning the connection counts for least-cpu
getLeastCpuWorker_Connections(st) == ScanMin(st, "connections", 1, Infinity, st.workerIds[1])
getLeastCpuWorker(st) == ScanMin(st, "load", 1, Infinity, st.workerIds[1])
getFastestResponseWorker(st) == ScanMin(st, "lastUsed", 1, Infinity, st.workerIds[1])

RECURSIVE StickySize(_)
StickySize(sticky) == IF sticky = <<>> THEN 0 ELSE Head(sticky).n + StickySize(Tail(sticky))

StickyHas(sticky, clientIp) ==
  clientIp # Other /\ \E i \in 1..Len(sticky) : sticky[i].client = clientIp
StickyGet(sticky, clientIp) ==
  sticky[CHOOSE i \in 1..Len(sticky) : sticky[i].client = clientIp].worker
StickyDelete(sticky, clientIp) == SelectSeq(sticky, LAMBDA e : e.client # clientIp)
\* state.sticky.set(clientIp, workerId)
StickySet(sticky, clientIp, workerId) ==
  IF StickyHas(sticky, clientIp)
  THEN [i \in 1..Len(sticky) |->
          IF sticky[i].client = clientIp THEN [sticky[i] EXCEPT !.worker = workerId] ELSE sticky[i]]
  ELSE IF clientIp = Other /\ sticky # <<>> /\ sticky[Len(sticky)].client = Other
  THEN [sticky EXCEPT ![Len(sticky)].n = @ + 1]
  ELSE Append(sticky, [client |-> clientIp, worker |-> IF clientIp = Other THEN 0 ELSE workerId,
                       n |-> 1])

RECURSIVE DropFirst(_, _)
\* Array.from(sticky.keys()).slice(0, k).forEach(key => sticky.delete(key))
DropFirst(sticky, k) ==
  IF k = 0 \/ sticky = <<>> THEN sticky
  ELSE IF Head(sticky).n <= k THEN DropFirst(Tail(sticky), k - Head(sticky).n)
  ELSE <<[Head(sticky) EXCEPT !.n = @ - k]>> \o Tail(sticky)

StickyEvict(sticky) ==
  IF StickySize(sticky) > StickyLimit THEN DropFirst(sticky, StickyEvictBatch) ELSE sticky

\* the slip of never reading the sticky table
StickyHit_Never(st, clientIp) == FALSE

\* getNextWorker, lines 174-177: the stored worker is returned
StickyHit(st, clientIp) ==
  /\ st.options.stickySessions
  /\ StickyHas(st.sticky, clientIp)
  /\ StickyGet(st.sticky, clientIp) # 0
  /\ StickyGet(st.sticky, clientIp) \in DOMAIN st.workers

\* the switch on state.options.algorithm
SelectByAlgorithm(st) ==
  IF st.options.algorithm = "least-connections"
  THEN [state |-> st, selected |-> getLeastConnectionsWorker(st)]
  ELSE IF st.options.algorithm = "least-cpu"
  THEN [state |-> st, selected |-> getLeastCpuWorker(st)]
  ELSE IF st.options.algorithm = "fastest-response"
  THEN [state |-> st, selected |-> getFastestResponseWorker(st)]
  ELSE getRoundRobinWorker(st)

\* getNextWorker(clientIp) in the primary; selected 0 stands for undefined
getNextWorker(st, clientIp) ==
  IF Len(st.workerIds) = 0 THEN [state |-> st, selected |-> 0]
  ELSE IF StickyHit(st, clientIp)
  THEN [state |-> st, selected |-> StickyGet(st.sticky, clientIp)]
  ELSE LET st1 == IF st.options.stickySessions /\ StickyHas(st.sticky, clientIp)
                  THEN [st EXCEPT !.sticky = StickyDelete(@, clientIp)] ELSE st
           s == SelectByAlgorithm(st1)
       IN IF st.options.stickySessions
          THEN [state |-> [s.state EXCEPT !.sticky = StickyEvict(StickySet(@, clientIp, s.selected))],
                selected |-> s.selected]
          ELSE s

\* k entries of clients not seen before are appended to the sticky Map
StickyAppendOthers(sticky, k) ==
  IF k = 0 THEN sticky
  ELSE IF sticky # <<>> /\ sticky[Len(sticky)].client = Other
  THEN [sticky EXCEPT ![Len(sticky)].n = @ + k]
  ELSE Append(sticky, [client |-> Other, worker |-> 0, n |-> k])

RECURSIVE StickyAfterCalls(_, _)
\* the sticky Map after n getNextWorker calls from clients not seen before: each
\* call adds one entry, and the call that takes the Map past StickyLimit evicts
StickyAfterCalls(sticky, n) ==
  LET room == StickyLimit - StickySize(sticky)
  IN IF n <= room THEN StickyAppendOthers(sticky, n)
     ELSE StickyAfterCalls(StickyEvict(StickyAppendOthers(sticky, room + 1)), n - (room + 1))

\* n getNextWorker calls in a row, each from a client not seen before, with sticky
\* sessions on: each call selects by the algorithm and stores its client
CallsFromOthers(st, n) ==
  [st EXCEPT !.sticky = StickyAfterCalls(@, n),
             !.currentWorkerIndex =
                IF st.options.algorithm = "round-robin" THEN (@ + n) % Len(st.workerIds) ELSE @]

\* the slip of leaving the dead worker in the id list
onExit_KeepId(st, id) == [st EXCEPT !.workers = MapDelete(@, id)]

\* cluster.on('exit') of the balancer, before its setTimeout
onExit(st, id) ==
  [st EXCEPT !.workers = MapDelete(@, id),
             !.workerIds = SelectSeq(@, LAMBDA w : w # id)]

Range(seq) == {seq[i] : i \in 1..Len(seq)}
TrackedClients(sticky) == {sticky[i].client : i \in 1..Len(sticky)} \ {Other}

NoPick ==
  [valid |-> FALSE, client |-> "", worker |-> 0, previous |-> 0,
   previousRegistered |-> FALSE, wasDropped |-> FALSE, registeredBefore |-> {}]

\* what a worker reports: its cpu time so far and the time of the report
Reports == { [load |-> 1, lastUsed |-> 1] }

\* the primary branch of createHandler: createLoadBalancer(...).start(numWorkers) and
\* the adapter's own cluster.on("exit")
StartCluster(algorithm, stickySessions, numWorkers) ==
  /\ workerCount = 0
  /\ workerCount' = numWorkers
  /\ state' = ForkWorkers([NoState EXCEPT !.options = [algorithm |-> algorithm,
                                                        stickySessions |-> stickySessions]],
                          nextWorkerId, numWorkers)
  /\ clusterWorkers' = clusterWorkers \cup (nextWorkerId..(nextWorkerId + numWorkers - 1))
  /\ nextWorkerId' = nextWorkerId + numWorkers
  /\ UNCHANGED <<restartTimers, recent, lastPick, assigned, dropped, exitCount, burstCount>>
  /\ UNCHANGED <<routerVars, dispatchVars, shutdownVars, extraVars>>

\* a worker process exits: both 'exit' listeners of the primary run
WorkerExit(id) ==
  /\ workerCount > 0
  /\ exitCount < MaxExits
  /\ id \in clusterWorkers
  /\ clusterWorkers' = clusterWorkers \ {id}
  /\ state' = onExit(state, id)
  /\ restartTimers' = [balancer |-> restartTimers.balancer + 1,
                       adapter |-> restartTimers.adapter + 1]
  /\ exitCount' = exitCount + 1
  /\ recent' = <<>>
  /\ lastPick' = NoPick
  /\ UNCHANGED <<workerCount, nextWorkerId, assigned, dropped, burstCount>>
  /\ UNCHANGED <<routerVars, dispatchVars, shutdownVars, extraVars>>

\* setTimeout(() => forkWorker(), 1000) of the balancer fires
RestartByBalancer ==
  /\ restartTimers.balancer > 0
  /\ restartTimers' = [restartTimers EXCEPT !.balancer = @ - 1]
  /\ state' = forkWorker(state, nextWorkerId)
  /\ clusterWorkers' = clusterWorkers \cup {nextWorkerId}
  /\ nextWorkerId' = nextWorkerId + 1
  /\ recent' = <<>>
  /\ lastPick' = NoPick
  /\ UNCHANGED <<workerCount, assigned, dropped, exitCount, burstCount>>
  /\ UNCHANGED <<routerVars, dispatchVars, shutdownVars, extraVars>>

\* setTimeout(() => cluster.fork(), 1000) of the adapter fires
RestartByAdapter ==
  /\ restartTimers.adapter > 0
  /\ restartTimers' = [restartTimers EXCEPT !.adapter = @ - 1]
  /\ clusterWorkers' = clusterWorkers \cup {nextWorkerId}
  /\ nextWorkerId' = nextWorkerId + 1
  /\ lastPick' = NoPick
  /\ UNCHANGED <<state, workerCount, recent, assigned, dropped, exitCount, burstCount>>
  /\ UNCHANGED <<routerVars, dispatchVars, shutdownVars, extraVars>>

\* cluster.on('message') with a stats message from a live worker
StatsReport(id, load, lastUsed) ==
  /\ workerCount > 0
  /\ id \in clusterWorkers
  /\ state' = updateWorkerStats(state, id, [load |-> load, connections |-> 0, lastUsed |-> lastUsed])
  /\ state' # state
  /\ lastPick' = NoPick
  /\ UNCHANGED <<clusterWorkers, nextWorkerId, restartTimers, workerCount, recent, assigned,
                 dropped, exitCount, burstCount>>
  /\ UNCHANGED <<routerVars, dispatchVars, shutdownVars, extraVars>>

\* getNextWorker(clientIp) is called for a client
GetNextWorker(clientIp) ==
  /\ workerCount > 0
  /\ LET r == getNextWorker(state, clientIp)
         gone == TrackedClients(state.sticky) \ TrackedClients(r.state.sticky)
     IN /\ state' = r.state
        /\ lastPick' = [valid |-> TRUE, client |-> clientIp, worker |-> r.selected,
                        previous |-> assigned[clientIp],
                        previousRegistered |-> assigned[clientIp] \in DOMAIN state.workers,
                        wasDropped |-> clientIp \in dropped,
                        registeredBefore |-> DOMAIN state.workers]
        /\ assigned' = IF state.options.stickySessions
                       THEN [assigned EXCEPT ![clientIp] = r.selected] ELSE assigned
        /\ dropped' = (dropped \ {clientIp}) \cup (gone \ {clientIp})
        /\ recent' = IF state.options.stickySessions \/ state.options.algorithm # "round-robin"
                          \/ r.selected = 0
                     THEN <<>>
                     ELSE IF Len(recent) < Len(state.workerIds) THEN Append(recent, r.selected)
                     ELSE Append(Tail(recent), r.selected)
  /\ UNCHANGED <<clusterWorkers, nextWorkerId, restartTimers, workerCount, exitCount, burstCount>>
  /\ UNCHANGED <<routerVars, dispatchVars, shutdownVars, extraVars>>

\* StickyEvictBatch calls of getNextWorker in a row from clients not seen before
OtherClients ==
  /\ workerCount > 0
  /\ state.options.stickySessions
  /\ Len(state.workerIds) > 0
  /\ burstCount < MaxBursts
  /\ LET st == CallsFromOthers(state, StickyEvictBatch)
     IN /\ state' = st
        /\ dropped' = dropped \cup (TrackedClients(state.sticky) \ TrackedClients(st.sticky))
  /\ recent' = <<>>
  /\ lastPick' = NoPick
  /\ burstCount' = burstCount + 1
  /\ UNCHANGED <<clusterWorkers, nextWorkerId, restartTimers, workerCount, assigned, exitCount>>
  /\ UNCHANGED <<routerVars, dispatchVars, shutdownVars, extraVars>>

(***************************************************************************)
(* Graceful shutdown (utils/gracefulShutdown, setupGracefulShutdown).      *)
(* Time is counted in ticks of half the configured timeout.  A socket that *)
(* was destroyed stays in connections until its 'close' event is handled.  *)
(***************************************************************************)
MaxTime == 4
MaxConnections == 2
MaxSignals == 2

\* options.timeout, in ticks
Timeout == 2
NoTimer == -1

Sockets == 1..MaxConnections

NoCalls == [beforeShutdown |-> 0, close |-> 0, onShutdown |-> 0]

\* the steps of shutdown() in their order
ShutdownSteps == {"beforeShutdown", "close", "onShutdown"}

Signals == {"SIGINT", "SIGTERM", "SIGHUP", "SIGUSR2"}
\* the signals each module listens to
WatcherSignals == {"SIGINT", "SIGTERM"}
CoordinatorSignals == {"SIGTERM", "SIGINT", "SIGUSR2"}
ServerSignals == {"SIGINT", "SIGTERM", "SIGHUP"}

\* createHandler's tail or a direct call: server.listen(), setupGracefulShutdown(server, options)
SetupGracefulShutdown(worker) ==
  /\ ~shutdownArmed
  /\ shutdownArmed' = TRUE
  /\ accepting' = TRUE
  /\ isWorker' = worker
  /\ UNCHANGED <<isShuttingDown, shutdownPc, connections, destroyed, forceShutdownTimeout,
                 connectionCloseTimeout, checkInterval, clock, signalAt>>
  /\ UNCHANGED processVars
  /\ UNCHANGED <<routerVars, dispatchVars, balancerVars, extraVars>>

\* server.on('connection'): a client connects
Connect(socket) ==
  /\ accepting
  /\ shutdownPc # "exited"
  /\ socket \notin connections
  /\ connections' = connections \cup {socket}
  /\ UNCHANGED <<shutdownArmed, isWorker, isShuttingDown, shutdownPc, accepting, destroyed,
                 forceShutdownTimeout, connectionCloseTimeout, checkInterval, clock, signalAt>>
  /\ UNCHANGED processVars
  /\ UNCHANGED <<routerVars, dispatchVars, balancerVars, extraVars>>

\* the peer closes a connection, or the socket ends: the socket is destroyed
SocketDestroyed(socket) ==
  /\ shutdownPc # "exited"
  /\ socket \in connections \ destroyed
  /\ destroyed' = destroyed \cup {socket}
  /\ UNCHANGED <<shutdownArmed, isWorker, isShuttingDown, shutdownPc, accepting, connections,
                 forceShutdownTimeout, connectionCloseTimeout, checkInterval, clock, signalAt>>
  /\ UNCHANGED processVars
  /\ UNCHANGED <<routerVars, dispatchVars, balancerVars, extraVars>>

\* connection.on('close'): connections.delete(connection)
ConnectionClose(socket) ==
  /\ shutdownPc # "exited"
  /\ socket \in destroyed
  /\ connections' = connections \ {socket}
  /\ destroyed' = destroyed \ {socket}
  /\ UNCHANGED <<shutdownArmed, isWorker, isShuttingDown, shutdownPc, accepting,
                 forceShutdownTimeout, connectionCloseTimeout, checkInterval, clock, signalAt>>
  /\ UNCHANGED processVars
  /\ UNCHANGED <<routerVars, dispatchVars, balancerVars, extraVars>>

\* shutdown(signal) up to await beforeShutdown(); a second call returns at once
shutdown ==
  IF isShuttingDown
  THEN UNCHANGED <<isShuttingDown, shutdownPc, signalAt>>
  ELSE /\ isShuttingDown' = TRUE
       /\ shutdownPc' = "beforeShutdown"
       /\ signalAt' = clock

\* the invocation counts after shutdown(signal) was entered
CallsAfterShutdown ==
  IF isShuttingDown THEN calls ELSE [calls EXCEPT !.beforeShutdown = @ + 1]

\* core/watcher is imported (adapters/node.ts imports it): its module body installs
\* SIGINT and SIGTERM listeners before any other listener exists
ImportWatcher ==
  /\ ~shutdownArmed
  /\ ~watcherHandlers
  /\ watcherHandlers' = TRUE
  /\ UNCHANGED <<shutdownArmed, isWorker, isShuttingDown, shutdownPc, accepting, connections,
                 destroyed, forceShutdownTimeout, connectionCloseTimeout, checkInterval,
                 clock, signalAt>>
  /\ UNCHANGED <<serverShutdown, serverCloseTimer, calls, completedSteps, exitReason, signalCount,
                 signalled>>
  /\ UNCHANGED <<routerVars, dispatchVars, balancerVars, extraVars>>

\* core/server.ts createServer, after the handler returned the server:
\* setupGracefulShutdown() installs its own listeners in the primary
SetupPrimaryShutdown ==
  /\ shutdownArmed
  /\ ~isWorker
  /\ shutdownPc = "running"
  /\ ~isShuttingDown
  /\ serverShutdown = "none"
  /\ serverShutdown' = "installed"
  /\ UNCHANGED <<shutdownArmed, isWorker, isShuttingDown, shutdownPc, accepting, connections,
                 destroyed, forceShutdownTimeout, connectionCloseTimeout, checkInterval,
                 clock, signalAt>>
  /\ UNCHANGED <<watcherHandlers, serverCloseTimer, calls, completedSteps, exitReason, signalCount,
                 signalled>>
  /\ UNCHANGED <<routerVars, dispatchVars, balancerVars, extraVars>>

\* a signal arrives: its listeners run in the order they were installed. The
\* watcher's calls process.exit(0); otherwise shutdown(signal) of the coordinator
\* runs up to its first await and then the listener of core/server.ts closes the server
Signal(signal) ==
  /\ shutdownArmed
  /\ shutdownPc # "exited"
  /\ signalCount < MaxSignals
  /\ signalCount' = signalCount + 1
  /\ signalled' = signalled \cup {signal}
  /\ IF watcherHandlers /\ signal \in WatcherSignals
     THEN /\ shutdownPc' = "exited"
          /\ exitReason' = "watcher"
          /\ UNCHANGED <<isShuttingDown, signalAt, calls, serverShutdown, serverCloseTimer,
                         accepting>>
     ELSE /\ IF signal \in CoordinatorSignals
             THEN shutdown
             ELSE UNCHANGED <<isShuttingDown, shutdownPc, signalAt>>
          /\ IF serverShutdown = "installed" /\ signal \in ServerSignals
             THEN /\ serverShutdown' = "closing"
                  /\ serverCloseTimer' = clock
                  /\ accepting' = FALSE
                  /\ calls' = [(IF signal \in CoordinatorSignals THEN CallsAfterShutdown ELSE calls)
                                 EXCEPT !.close = @ + 1]
             ELSE /\ calls' = IF signal \in CoordinatorSignals THEN CallsAfterShutdown ELSE calls
                  /\ UNCHANGED <<serverShutdown, serverCloseTimer, accepting>>
          /\ UNCHANGED exitReason
  /\ UNCHANGED <<shutdownArmed, isWorker, connections, destroyed, forceShutdownTimeout,
                 connectionCloseTimeout, checkInterval, clock>>
  /\ UNCHANGED <<watcherHandlers, completedSteps>>
  /\ UNCHANGED <<routerVars, dispatchVars, balancerVars, extraVars>>

\* the shutdown handle is called: by the worker's 'message' listener on a shutdown
\* message (adapters/node.ts) or by the application
ShutdownCall ==
  /\ shutdownArmed
  /\ shutdownPc # "exited"
  /\ signalCount < MaxSignals
  /\ signalCount' = signalCount + 1
  /\ shutdown
  /\ calls' = CallsAfterShutdown
  /\ UNCHANGED <<shutdownArmed, isWorker, accepting, connections, destroyed,
                 forceShutdownTimeout, connectionCloseTimeout, checkInterval, clock>>
  /\ UNCHANGED <<watcherHandlers, serverShutdown, serverCloseTimer, completedSteps, exitReason,
                 signalled>>
  /\ UNCHANGED <<routerVars, dispatchVars, balancerVars, extraVars>>

\* core/server.ts shutdown resumes, on the server's 'close' event or after 3 s,
\* which is less than one tick: process.exit(0)
PrimaryShutdownExit ==
  /\ serverShutdown = "closing"
  /\ shutdownPc # "exited"
  /\ connections \subseteq destroyed \/ clock >= serverCloseTimer
  /\ shutdownPc' = "exited"
  /\ exitReason' = "server"
  /\ serverCloseTimer' = NoTimer
  /\ UNCHANGED <<shutdownArmed, isWorker, isShuttingDown, accepting, connections, destroyed,
                 forceShutdownTimeout, connectionCloseTimeout, checkInterval, clock, signalAt>>
  /\ UNCHANGED <<watcherHandlers, serverShutdown, calls, completedSteps, signalCount, signalled>>
  /\ UNCHANGED <<routerVars, dispatchVars, balancerVars, extraVars>>

\* process.on('unhandledRejection'): a rejected listener promise starts the shutdown
UnhandledRejection ==
  /\ shutdownArmed
  /\ shutdownPc # "exited"
  /\ rejections > 0
  /\ rejections' = rejections - 1
  /\ shutdown
  /\ calls' = CallsAfterShutdown
  /\ UNCHANGED <<shutdownArmed, isWorker, accepting, connections, destroyed,
                 forceShutdownTimeout, connectionCloseTimeout, checkInterval, clock>>
  /\ UNCHANGED <<watcherHandlers, serverShutdown, serverCloseTimer, completedSteps, exitReason,
                 signalCount, signalled>>
  /\ UNCHANGED <<config, globalMiddlewares, pathMiddlewares, lastRequest, requestCount>>
  /\ UNCHANGED <<routerVars, balancerVars, extraVars>>

\* await beforeShutdown() returns: the force timer is armed and server.close() is called
BeforeShutdownDone ==
  /\ shutdownPc = "beforeShutdown"
  /\ forceShutdownTimeout' = clock + Timeout
  /\ accepting' = FALSE
  /\ shutdownPc' = "closing"
  /\ calls' = [calls EXCEPT !.close = @ + 1]
  /\ completedSteps' = completedSteps \cup {"beforeShutdown"}
  /\ UNCHANGED <<shutdownArmed, isWorker, isShuttingDown, connections, destroyed,
                 connectionCloseTimeout, checkInterval, clock, signalAt>>
  /\ UNCHANGED <<watcherHandlers, serverShutdown, serverCloseTimer, exitReason, signalCount,
                 signalled>>
  /\ UNCHANGED <<routerVars, dispatchVars, balancerVars, extraVars>>

\* a hook throws: the catch block calls process.exit(1)
HookThrows ==
  /\ shutdownPc \in {"beforeShutdown", "onShutdown"}
  /\ shutdownPc' = "exited"
  /\ UNCHANGED <<shutdownArmed, isWorker, isShuttingDown, accepting, connections, destroyed,
                 forceShutdownTimeout, connectionCloseTimeout, checkInterval, clock, signalAt>>
  /\ exitReason' = "hookError"
  /\ UNCHANGED <<watcherHandlers, serverShutdown, serverCloseTimer, calls, completedSteps,
                 signalCount, signalled>>
  /\ UNCHANGED <<routerVars, dispatchVars, balancerVars, extraVars>>

\* the callback of server.close() runs: every connection has ended; sockets whose
\* 'close' event is still to come are waited for, then onShutdown() is called
ServerClosed ==
  /\ shutdownPc = "closing"
  /\ connections \subseteq destroyed
  /\ IF Cardinality(connections) > 0
     THEN /\ connectionCloseTimeout' = clock + (Timeout \div 2)
          /\ checkInterval' = TRUE
     ELSE UNCHANGED <<connectionCloseTimeout, checkInterval>>
  /\ shutdownPc' = "onShutdown"
  /\ UNCHANGED <<shutdownArmed, isWorker, isShuttingDown, accepting, connections, destroyed,
                 forceShutdownTimeout, clock, signalAt>>
  /\ calls' = [calls EXCEPT !.onShutdown = @ + 1]
  /\ completedSteps' = completedSteps \cup {"close"}
  /\ UNCHANGED <<watcherHandlers, serverShutdown, serverCloseTimer, exitReason, signalCount,
                 signalled>>
  /\ UNCHANGED <<routerVars, dispatchVars, balancerVars, extraVars>>

\* await onShutdown() returns: the force timer is cleared; a worker exits
OnShutdownDone ==
  /\ shutdownPc = "onShutdown"
  /\ forceShutdownTimeout' = NoTimer
  /\ shutdownPc' = IF isWorker THEN "exited" ELSE "completed"
  /\ UNCHANGED <<shutdownArmed, isWorker, isShuttingDown, accepting, connections, destroyed,
                 connectionCloseTimeout, checkInterval, clock, signalAt>>
  /\ completedSteps' = completedSteps \cup {"onShutdown"}
  /\ exitReason' = IF isWorker THEN "graceful" ELSE exitReason
  /\ UNCHANGED <<watcherHandlers, serverShutdown, serverCloseTimer, calls, signalCount, signalled>>
  /\ UNCHANGED <<routerVars, dispatchVars, balancerVars, extraVars>>

\* forceShutdownTimeout fires: process.exit(1)
ForceShutdown ==
  /\ shutdownPc # "exited"
  /\ forceShutdownTimeout # NoTimer
  /\ clock >= forceShutdownTimeout
  /\ shutdownPc' = "exited"
  /\ forceShutdownTimeout' = NoTimer
  /\ UNCHANGED <<shutdownArmed, isWorker, isShuttingDown, accepting, connections, destroyed,
                 connectionCloseTimeout, checkInterval, clock, signalAt>>
  /\ exitReason' = "timeout"
  /\ UNCHANGED <<watcherHandlers, serverShutdown, serverCloseTimer, calls, completedSteps,
                 signalCount, signalled>>
  /\ UNCHANGED <<routerVars, dispatchVars, balancerVars, extraVars>>

\* connectionCloseTimeout fires: the sockets still tracked are destroyed
ForceCloseConnections ==
  /\ shutdownPc # "exited"
  /\ connectionCloseTimeout # NoTimer
  /\ clock >= connectionCloseTimeout
  /\ connectionCloseTimeout' = NoTimer
  /\ destroyed' = connections
  /\ UNCHANGED <<shutdownArmed, isWorker, isShuttingDown, shutdownPc, accepting, connections,
                 forceShutdownTimeout, checkInterval, clock, signalAt>>
  /\ UNCHANGED processVars
  /\ UNCHANGED <<routerVars, dispatchVars, balancerVars, extraVars>>

\* checkInterval fires with no connection left: both are cleared
CheckInterval ==
  /\ shutdownPc # "exited"
  /\ checkInterval
  /\ Cardinality(connections) = 0
  /\ checkInterval' = FALSE
  /\ connectionCloseTimeout' = NoTimer
  /\ UNCHANGED <<shutdownArmed, isWorker, isShuttingDown, shutdownPc, accepting, connections,
                 destroyed, forceShutdownTimeout, clock, signalAt>>
  /\ UNCHANGED processVars
  /\ UNCHANGED <<routerVars, dispatchVars, balancerVars, extraVars>>

\* half the timeout passes; a timer that is due fires first
Tick ==
  /\ shutdownArmed
  /\ shutdownPc # "exited"
  /\ clock < MaxTime
  /\ forceShutdownTimeout = NoTimer \/ clock < forceShutdownTimeout
  /\ connectionCloseTimeout = NoTimer \/ clock < connectionCloseTimeout
  /\ serverCloseTimer = NoTimer \/ clock < serverCloseTimer
  /\ clock' = clock + 1
  /\ UNCHANGED <<shutdownArmed, isWorker, isShuttingDown, shutdownPc, accepting, connections,
                 destroyed, forceShutdownTimeout, connectionCloseTimeout, checkInterval, signalAt>>
  /\ UNCHANGED processVars
  /\ UNCHANGED <<routerVars, dispatchVars, balancerVars, extraVars>>

(***************************************************************************)
(* The timeout middleware (src/src/utils/timeout.ts) on the responses of   *)
(* requests that are in their beforeRequest phase or later.                *)
(***************************************************************************)
MaxResponses == 2
MaxApplications == 2

Responses == 1..MaxResponses

\* a response of a request that has not been dispatched yet
NoResponseState ==
  [phase |-> "idle", headersSent |-> FALSE, status |-> 200, finished |-> FALSE,
   closed |-> FALSE, listeners |-> {}, defined |-> FALSE, timedOut |-> FALSE,
   applied |-> 0, firedOpen |-> FALSE, endedFirst |-> FALSE]

\* const cleanup = () => { ... }: the timer is cleared and the entry deleted
cleanup(map, r) == map \ {r}

\* timeoutMiddleware(req, res)
timeoutMiddleware(r) ==
  IF r \in timeoutMap
  THEN UNCHANGED <<responses, timeoutMap>>
  ELSE /\ timeoutMap' = timeoutMap \cup {r}
       /\ responses' = [responses EXCEPT ![r].timedOut = FALSE,
                                         ![r].defined = TRUE,
                                         ![r].listeners = @ \cup {"finish", "close"},
                                         ![r].applied = @ + 1,
                                         ![r].endedFirst = responses[r].finished \/ responses[r].closed]

\* requestListener is entered for a request: the beforeRequest hooks start
Dispatch(r) ==
  /\ responses[r].phase = "idle"
  /\ responses' = [responses EXCEPT ![r].phase = "beforeRequest"]
  /\ UNCHANGED timeoutMap
  /\ UNCHANGED <<routerVars, dispatchVars, balancerVars, shutdownVars, directoryVars, watcherVars, phaseVars, serviceVars>>

\* a timeout middleware in the global beforeRequest list is run for the request
ApplyTimeout(r) ==
  /\ responses[r].phase = "beforeRequest"
  /\ responses[r].applied < MaxApplications
  /\ timeoutMiddleware(r)
  /\ UNCHANGED <<routerVars, dispatchVars, balancerVars, shutdownVars, directoryVars, watcherVars, phaseVars, serviceVars>>

\* the beforeRequest phase is over: the route handler starts
HandlerStarts(r) ==
  /\ responses[r].phase = "beforeRequest"
  /\ responses' = [responses EXCEPT ![r].phase = "handler"]
  /\ UNCHANGED timeoutMap
  /\ UNCHANGED <<routerVars, dispatchVars, balancerVars, shutdownVars, directoryVars, watcherVars, phaseVars, serviceVars>>

\* a hook or the handler writes the response: res.status(code).json(data)
Respond(r) ==
  /\ responses[r].phase \in {"beforeRequest", "handler"}
  /\ ~responses[r].headersSent
  /\ ~responses[r].closed
  /\ responses' = [responses EXCEPT ![r].headersSent = TRUE]
  /\ UNCHANGED timeoutMap
  /\ UNCHANGED <<routerVars, dispatchVars, balancerVars, shutdownVars, directoryVars, watcherVars, phaseVars, serviceVars>>

\* the response emits 'finish' or 'close': the once-listeners registered for it run
ResponseEvent(r, event) ==
  /\ responses[r].phase \in {"beforeRequest", "handler"}
  /\ \/ event = "finish" /\ responses[r].headersSent /\ ~responses[r].finished
        /\ ~responses[r].closed
     \/ event = "close" /\ ~responses[r].closed
  /\ responses' = [responses EXCEPT ![r].finished = @ \/ event = "finish",
                                    ![r].closed = @ \/ event = "close",
                                    ![r].listeners = @ \ {event}]
  /\ timeoutMap' = IF event \in responses[r].listeners THEN cleanup(timeoutMap, r)
                   ELSE timeoutMap
  /\ UNCHANGED <<routerVars, dispatchVars, balancerVars, shutdownVars, directoryVars, watcherVars, phaseVars, serviceVars>>

\* the timer of a response fires
TimerFires(r) ==
  /\ r \in timeoutMap
  /\ responses' = [responses EXCEPT
                     ![r].timedOut = TRUE,
                     ![r].status = IF responses[r].headersSent THEN @ ELSE 408,
                     ![r].headersSent = TRUE,
                     ![r].firedOpen = ~responses[r].finished /\ ~responses[r].closed]
  /\ timeoutMap' = timeoutMap \ {r}
  /\ UNCHANGED <<routerVars, dispatchVars, balancerVars, shutdownVars, directoryVars, watcherVars, phaseVars, serviceVars>>

NoRun ==
  [valid |-> FALSE, phase |-> "", urlPath |-> <<>>, continue |-> TRUE, rejects |-> FALSE,
   log |-> <<>>,
   globalMiddlewares |-> NoMiddlewares, pathMiddlewares |-> <<>>]

NoApplicable == [valid |-> FALSE, middlewarePath |-> <<>>, requestPath |-> <<>>,
                 result |-> FALSE, fromCache |-> FALSE]

MaxTracked == 3

TrackedRequests == 1..MaxTracked

NoData == [activeRequests |-> 0, requestCount |-> 0, errorCount |-> 0]

NoInflight ==
  [pc |-> "none", method |-> "", url |-> <<>>, handlerDoes |-> "", log |-> <<>>,
   middlewares |-> <<>>]

Init ==
  /\ rootNode = EmptyTrie
  /\ cachedRoutes = <<>>
  /\ routeCount = 0
  /\ registered = <<>>
  /\ lastLookup = NoLookup
  /\ loadPc = "idle"
  /\ scanQueue = <<>>
  /\ disk = TreeSmall
  /\ scanned = <<>>
  /\ before = <<>>
  /\ config = NoConfig
  /\ globalMiddlewares = NoMiddlewares
  /\ pathMiddlewares = <<>>
  /\ lastRequest = NoRequest
  /\ requestCount = 0
  /\ rejections = 0
  /\ state = NoState
  /\ workerCount = 0
  /\ clusterWorkers = {}
  /\ nextWorkerId = 1
  /\ restartTimers = [balancer |-> 0, adapter |-> 0]
  /\ recent = <<>>
  /\ lastPick = NoPick
  /\ assigned = [c \in Clients \cup {Other} |-> 0]
  /\ dropped = {}
  /\ exitCount = 0
  /\ burstCount = 0
  /\ shutdownArmed = FALSE
  /\ isWorker = FALSE
  /\ isShuttingDown = FALSE
  /\ shutdownPc = "running"
  /\ accepting = FALSE
  /\ connections = {}
  /\ destroyed = {}
  /\ forceShutdownTimeout = NoTimer
  /\ connectionCloseTimeout = NoTimer
  /\ checkInterval = FALSE
  /\ clock = 0
  /\ signalAt = 0
  /\ watcherHandlers = FALSE
  /\ serverShutdown = "none"
  /\ serverCloseTimer = NoTimer
  /\ calls = NoCalls
  /\ completedSteps = {}
  /\ exitReason = "none"
  /\ signalCount = 0
  /\ signalled = {}
  /\ responses = [r \in Responses |-> NoResponseState]
  /\ timeoutMap = {}
  /\ middlewareDisk = <<>>
  /\ inflight = NoInflight
  /\ isWatching = FALSE
  /\ isReloading = FALSE
  /\ debounceTimer = FALSE
  /\ watcherPc = "idle"
  /\ notifications = 0
  /\ lastRun = NoRun
  /\ pathMatchCache = <<>>
  /\ lastApplicable = NoApplicable
  /\ openConnections = <<>>
  /\ monitorData = NoData
  /\ tracked = [r \in TrackedRequests |-> "idle"]

Next ==
  \/ \E method \in AddMethods, routePath \in RoutePaths : AddRoute(method, routePath)
  \/ \E method \in LookupMethods, url \in RequestUrls : FindRoute(method, url)

Spec == Init /\ [][Next]_vars

NextReload ==
  \/ StartLoad
  \/ MiddlewaresLoaded
  \/ ImportModule
  \/ LoadDone
  \/ \E tree \in Trees : DiskChange(tree)
  \/ \E method \in LookupMethods, url \in RequestUrls : FindRoute(method, url)

\* routes for the lookups of many paths: a literal and a parameter
CacheRoutePaths == {PathOf(<<SegA>>), PathOf(<<SegX>>)}
\* how many lookups in a row
LookupCounts == {EvictBatch, CacheLimit}

NextCache ==
  \/ \E method \in AddMethods, routePath \in CacheRoutePaths : AddRoute(method, routePath)
  \/ \E method \in LookupMethods, url \in RequestPaths : FindRoute(method, url)
  \/ \E method \in LookupMethods, n \in LookupCounts : LookupOthers(method, n)

SpecCache == Init /\ [][NextCache]_vars

SpecReload == Init /\ [][NextReload]_vars

NextDispatch ==
  \/ \E cfg \in Configs, files \in MiddlewareFiles : CreateHandler(cfg, files)
  \/ \E h \in AddableHooks : AddMiddleware(h[1], h[2])
  \/ \E method \in RequestMethods, url \in DispatchUrls, handlerDoes \in HandlerBehaviours :
       Request(method, url, handlerDoes)
  \/ UnhandledRejection

SpecDispatch == Init /\ [][NextDispatch]_vars

(***************************************************************************)
(* runMiddlewares and the registries on their own (core/middleware.ts).    *)
(* Besides the hooks above a hook may be "undefined", "null", "zero" or    *)
(* "empty" (returns that falsy value) or "send" (sends the response and    *)
(* returns nothing).                                                       *)
(***************************************************************************)
FilesOrdered ==
  << [prefix |-> <<"/">>, beforeRequest |-> Single("undefined"),
      afterRequest |-> Array(<<"send", "continue">>), onError |-> Single("zero")],
     [prefix |-> <<"/", "a">>, beforeRequest |-> Array(<<"null", "continue">>),
      afterRequest |-> Single("empty"), onError |-> Absent] >>
PhaseFiles == {FilesLayered, FilesThrowing, FilesOrdered}

PhaseHooks == {"continue", "undefined", "false", "throw", "send"}

\* loadMiddlewares(routesDir) on a directory holding the +middleware modules files
LoadMiddlewares(files) ==
  /\ pathMiddlewares' = loadMiddlewares(files)
  /\ UNCHANGED <<requestVars, routerVars, balancerVars, shutdownVars>>
  /\ UNCHANGED <<timeoutVars, directoryVars, watcherVars, phaseVars, serviceVars>>

\* runMiddlewares(MiddlewareName, req, res) for a request of path urlPath
RunMiddlewares(MiddlewareName, urlPath) ==
  /\ \E r \in {runMiddlewares(MiddlewareName, globalMiddlewares, pathMiddlewares, urlPath)} :
        lastRun' = [valid |-> TRUE, phase |-> MiddlewareName, urlPath |-> urlPath,
                    continue |-> r.continue, rejects |-> r.rejects, log |-> r.log,
                    globalMiddlewares |-> globalMiddlewares,
                    pathMiddlewares |-> pathMiddlewares]
  /\ UNCHANGED <<dispatchVars, routerVars, balancerVars, shutdownVars>>
  /\ UNCHANGED <<timeoutVars, directoryVars, watcherVars, serviceVars>>

NextPhase ==
  \/ \E MiddlewareName \in Phases, callback \in PhaseHooks : AddMiddleware(MiddlewareName, callback)
  \/ \E files \in PhaseFiles : LoadMiddlewares(files)
  \/ \E MiddlewareName \in Phases, urlPath \in DispatchUrls : RunMiddlewares(MiddlewareName, urlPath)

SpecPhase == Init /\ [][NextPhase]_vars

\* routes directories: the index modules and the +middleware modules, each with the
\* directory that holds it, in the order scanDir visits them
MiddlewareFile(dir, beforeRequest) ==
  [dir |-> dir, beforeRequest |-> beforeRequest, afterRequest |-> Absent, onError |-> Absent]
ProjectFlat ==
  [routes |-> TreeSmall,
   middlewares |-> << MiddlewareFile(<<>>, Single("continue")),
                      MiddlewareFile(<<SegA>>, Array(<<"continue", "continue">>)) >>]
ProjectNested ==
  [routes |-> << [dir |-> <<SegA>>, exports |-> {"GET"}],
                 [dir |-> <<SegC, SegB>>, exports |-> {"GET", "POST"}] >>,
   middlewares |-> << MiddlewareFile(<<SegC>>, Single("continue")),
                      MiddlewareFile(<<SegC, SegB>>, Single("false")) >>]
ProjectParam ==
  [routes |-> << [dir |-> <<SegX>>, exports |-> {"GET"}] >>,
   middlewares |-> << MiddlewareFile(<<SegX>>, Single("continue")) >>]
ProjectParamNested ==
  [routes |-> << [dir |-> <<SegA>>, exports |-> {"GET"}],
                 [dir |-> <<SegX, SegB>>, exports |-> {"GET"}] >>,
   middlewares |-> << MiddlewareFile(<<>>, Single("continue")),
                      MiddlewareFile(<<SegX>>, Single("continue")) >>]
Projects == {ProjectFlat, ProjectNested, ProjectParam, ProjectParamNested}

DirectoryUrls == {PathOf(<<SegA>>), PathOf(<<SegC>>), PathOf(<<SegC, SegB>>)}

NextDirectory ==
  \/ \E cfg \in Configs, project \in Projects : CreateHandlerIn(cfg, project)
  \/ \E method \in RequestMethods, url \in DirectoryUrls, handlerDoes \in HandlerBehaviours :
       Request(method, url, handlerDoes)

SpecDirectory == Init /\ [][NextDirectory]_vars

\* the routes directory is rewritten as project says while the server runs
DirectoryChange(project) ==
  /\ config.listening
  /\ loadPc = "idle"
  /\ project.routes # disk \/ project.middlewares # middlewareDisk
  /\ disk' = project.routes
  /\ middlewareDisk' = project.middlewares
  /\ UNCHANGED <<rootNode, cachedRoutes, routeCount, registered, lastLookup, loadPc,
                 scanQueue, scanned, before>>
  /\ UNCHANGED <<dispatchVars, balancerVars, shutdownVars, timeoutVars, inflight, watcherVars, phaseVars, serviceVars>>

\* a hook whose call the listener awaits across a turn of the event loop: any hook
\* but the timeout middleware, which returns without awaiting
Awaited(e) == e.ev = "hook" /\ e.does # "timeout"

\* requestListener up to the await of the last beforeRequest hook: the hooks of the
\* phase have run on the registries as they are, the phase continues, and the
\* listener is suspended before findRoute
RequestArrives(method, url, handlerDoes) ==
  /\ config.listening
  /\ accepting
  /\ requestCount < MaxRequests
  /\ inflight.pc # "paused"
  /\ config.beforeRequest \in {"none", "continue"}
  /\ \E b \in {runMiddlewares("beforeRequest", globalMiddlewares, pathMiddlewares, Pathname(url))} :
        /\ b.continue
        /\ b.log # <<>> /\ Awaited(b.log[Len(b.log)])
        /\ inflight' = [pc |-> "paused", method |-> method, url |-> url,
                        handlerDoes |-> handlerDoes,
                        log |-> (IF config.defaultHeaders THEN <<Ev("defaultHeaders")>> ELSE <<>>)
                                \o ConfigHook(config, "beforeRequest") \o b.log,
                        middlewares |-> <<>>]
  /\ requestCount' = requestCount + 1
  /\ UNCHANGED <<config, globalMiddlewares, lastRequest, rejections, pathMiddlewares>>
  /\ UNCHANGED <<routerVars, balancerVars, shutdownVars, timeoutVars, middlewareDisk, watcherVars, phaseVars, serviceVars>>

\* the awaited hook returns: requestListener from findRoute on, on the route table and
\* the registries as they are now
RequestResumes ==
  /\ inflight.pc = "paused"
  /\ \E r \in {ListenerRoute(config, pathMiddlewares, Pathname(inflight.url), inflight.log,
                              [NoResponse EXCEPT
                                 !.headers = {"Connection", "Keep-Alive"}
                                             \cup (IF config.defaultHeaders
                                                   THEN DefaultHeaderNames ELSE {})],
                              addMiddleware(globalMiddlewares, "beforeRequest", "timeout"),
                              rootNode, cachedRoutes, inflight.method, inflight.url,
                              inflight.handlerDoes)} :
        /\ Len(r.cache) <= MaxCached
        /\ globalMiddlewares' = r.globalMiddlewares
        /\ cachedRoutes' = r.cache
        /\ lastRequest' = [valid |-> TRUE, method |-> inflight.method, url |-> inflight.url,
                           log |-> r.log, res |-> r.res, route |-> r.route,
                           escaped |-> r.escaped, registryBefore |-> globalMiddlewares]
        /\ rejections' = rejections + (IF r.escaped THEN 1 ELSE 0)
        /\ inflight' = [inflight EXCEPT !.pc = "done", !.log = r.log,
                                        !.middlewares = pathMiddlewares]
  /\ UNCHANGED <<config, requestCount, pathMiddlewares>>
  /\ UNCHANGED <<rootNode, routeCount, registered, lastLookup, loadPc, scanQueue, disk,
                 scanned, before>>
  /\ UNCHANGED <<balancerVars, shutdownVars, timeoutVars, middlewareDisk, watcherVars, phaseVars, serviceVars>>

\* the configurations without a config-level hook
LiveConfigs == {c \in Configs : \A p \in Phases : c[p] = "none"}
LiveProjects == {ProjectFlat, ProjectNested}
LiveUrls == {PathOf(<<SegA>>), PathOf(<<SegC, SegB>>)}

NextLive ==
  \/ \E cfg \in LiveConfigs, project \in LiveProjects : CreateHandlerIn(cfg, project)
  \/ \E project \in LiveProjects : DirectoryChange(project)
  \/ StartLoad
  \/ MiddlewaresLoaded
  \/ ImportModule
  \/ LoadDone
  \/ \E method \in RequestMethods, url \in LiveUrls, handlerDoes \in HandlerBehaviours :
       RequestArrives(method, url, handlerDoes)
  \/ RequestResumes

SpecLive == Init /\ [][NextLive]_vars

(***************************************************************************)
(* The development watcher (core/watcher.ts, utils/debounce).              *)
(***************************************************************************)
MaxNotifications == 2

\* the frame of a watcher step that leaves the router alone
WatcherOnly == UNCHANGED <<dispatchVars, balancerVars, shutdownVars, timeoutVars, directoryVars, phaseVars, serviceVars>>

\* watchRoutes(routesDir), called once the first loadRoutes has resolved
WatchRoutes ==
  /\ config.listening
  /\ ~isWatching
  /\ isWatching' = TRUE
  /\ UNCHANGED <<isReloading, debounceTimer, watcherPc, notifications>>
  /\ UNCHANGED routerVars
  /\ WatcherOnly

\* a file of the routes directory changes and fs.watch calls the listener:
\* debouncedReload(filename) clears the pending timer and sets a new one
Notify(tree) ==
  /\ isWatching
  /\ notifications < MaxNotifications
  /\ tree # disk
  /\ disk' = tree
  /\ debounceTimer' = TRUE
  /\ notifications' = notifications + 1
  /\ UNCHANGED <<isWatching, isReloading, watcherPc>>
  /\ UNCHANGED <<rootNode, cachedRoutes, routeCount, registered, lastLookup, loadPc,
                 scanQueue, scanned, before>>
  /\ WatcherOnly

\* the debounce timer fires: the reload callback up to its first await
DebouncedReload ==
  /\ debounceTimer
  /\ debounceTimer' = FALSE
  /\ IF isReloading
     THEN UNCHANGED <<isReloading, watcherPc>>
     ELSE isReloading' = TRUE /\ watcherPc' = "hook"
  /\ UNCHANGED <<isWatching, notifications>>
  /\ UNCHANGED routerVars
  /\ WatcherOnly

\* await pluginManager.runHook('onRoutesReload') returns; loadRoutes is called
ReloadRoutes ==
  /\ watcherPc = "hook"
  /\ loadRoutesBegins
  /\ watcherPc' = "loading"
  /\ UNCHANGED <<isWatching, isReloading, debounceTimer, notifications>>

\* await loadRoutes(routesDir) returns; finally isReloading = false
ReloadFinished ==
  /\ watcherPc = "loading"
  /\ loadRoutesResolves
  /\ isReloading' = FALSE
  /\ watcherPc' = "idle"
  /\ UNCHANGED <<isWatching, debounceTimer, notifications>>

NextWatcher ==
  \/ \E cfg \in LiveConfigs, project \in LiveProjects : CreateHandlerIn(cfg, project)
  \/ WatchRoutes
  \/ \E tree \in Trees : Notify(tree)
  \/ DebouncedReload
  \/ ReloadRoutes
  \/ MiddlewaresLoaded
  \/ ImportModule
  \/ ReloadFinished

\* what an ImportModule step does to the scan: the module at the head of the queue
\* is imported
ModuleImported == loadPc = "scanning" /\ scanQueue # <<>> /\ scanQueue' = Tail(scanQueue)

\* timers fire and awaited promises settle
WatcherFairness ==
  /\ WF_vars(DebouncedReload)
  /\ WF_vars(ReloadRoutes)
  /\ WF_vars(MiddlewaresLoaded)
  /\ WF_scanQueue(ModuleImported)
  /\ WF_vars(ReloadFinished)

SpecWatcher == Init /\ [][NextWatcher]_vars /\ WatcherFairness

NextBalancer ==
  \/ \E algorithm \in Algorithms, stickySessions \in BOOLEAN, numWorkers \in 1..MaxWorkers :
       StartCluster(algorithm, stickySessions, numWorkers)
  \/ \E id \in clusterWorkers : WorkerExit(id)
  \/ RestartByBalancer
  \/ RestartByAdapter
  \/ \E id \in clusterWorkers, stats \in Reports : StatsReport(id, stats.load, stats.lastUsed)
  \/ \E clientIp \in Clients : GetNextWorker(clientIp)

SpecBalancer == Init /\ [][NextBalancer]_vars

NextSticky ==
  \/ StartCluster("round-robin", TRUE, MaxWorkers)
  \/ \E id \in clusterWorkers : WorkerExit(id)
  \/ RestartByBalancer
  \/ RestartByAdapter
  \/ GetNextWorker("c1")
  \/ OtherClients

SpecSticky == Init /\ [][NextSticky]_vars

NextShutdown ==
  \/ \E worker \in BOOLEAN : SetupGracefulShutdown(worker)
  \/ \E socket \in Sockets : Connect(socket)
  \/ \E socket \in Sockets : SocketDestroyed(socket)
  \/ \E socket \in Sockets : ConnectionClose(socket)
  \/ ImportWatcher
  \/ SetupPrimaryShutdown
  \/ \E signal \in Signals : Signal(signal)
  \/ ShutdownCall
  \/ PrimaryShutdownExit
  \/ BeforeShutdownDone
  \/ HookThrows
  \/ ServerClosed
  \/ OnShutdownDone
  \/ ForceShutdown
  \/ ForceCloseConnections
  \/ CheckInterval
  \/ Tick

SpecShutdown == Init /\ [][NextShutdown]_vars

NextTimeout ==
  \/ \E r \in Responses : Dispatch(r)
  \/ \E r \in Responses : ApplyTimeout(r)
  \/ \E r \in Responses : HandlerStarts(r)
  \/ \E r \in Responses : Respond(r)
  \/ \E r \in Responses, event \in {"finish", "close"} : ResponseEvent(r, event)
  \/ \E r \in Responses : TimerFires(r)

SpecTimeout == Init /\ [][NextTimeout]_vars

(***************************************************************************)
(* isPathApplicable with its memo table (core/middleware.ts pathMatchCache) *)
(* as runMiddlewares calls it for each prefix of the registry.              *)
(***************************************************************************)
MaxMemo == 3
PathMatchLimit == 1000
PathMatchEvictBatch == 100

\* `${middlewarePath}|${requestPath}`
PathMatchKey(middlewarePath, requestPath) == middlewarePath \o <<"|">> \o requestPath

\* if (pathMatchCache.size > 1000) the first 100 keys are deleted
PathMatchEvict(cache) ==
  IF Len(cache) > PathMatchLimit THEN SubSeq(cache, PathMatchEvictBatch + 1, Len(cache)) ELSE cache

\* isPathApplicable(middlewarePath, requestPath) on a memo table
isPathApplicableMemo(cache, middlewarePath, requestPath) ==
  LET cacheKey == PathMatchKey(middlewarePath, requestPath)
  IN IF CacheHas(cache, cacheKey)
     THEN [result |-> CacheGet(cache, cacheKey), cache |-> cache]
     ELSE [result |-> isPathApplicable(middlewarePath, requestPath),
           cache |-> Append(PathMatchEvict(cache),
                            [key |-> cacheKey,
                             value |-> isPathApplicable(middlewarePath, requestPath)])]

SegAPipe == <<"a", "|">>
SegBPipe == <<"b", "|">>
SegAb == <<"a", "b">>

\* prefixes that loadMiddlewares' scanDir gives to directories holding a +middleware module
MiddlewarePaths == {PathOf(<<>>), PathOf(<<SegA>>), PathOf(<<SegAPipe, SegB>>)}

\* pathnames of requests
ApplicableUrls ==
  { PathOf(<<SegA>>), PathOf(<<SegA>>) \o <<"/">>, PathOf(<<SegA, SegB>>), PathOf(<<SegAb>>),
    PathOf(<<SegB>>), PathOf(<<SegAPipe, SegB>>), PathOf(<<SegBPipe, SegAPipe, SegB>>) }

\* runMiddlewares reaches isPathApplicable(middlewarePath, urlPath) for a prefix
IsPathApplicable(middlewarePath, requestPath) ==
  /\ \E r \in {isPathApplicableMemo(pathMatchCache, middlewarePath, requestPath)} :
        /\ Len(r.cache) <= MaxMemo
        /\ pathMatchCache' = r.cache
        /\ lastApplicable' =
             [valid |-> TRUE, middlewarePath |-> middlewarePath, requestPath |-> requestPath,
              result |-> r.result,
              fromCache |-> CacheHas(pathMatchCache, PathMatchKey(middlewarePath, requestPath))]
  /\ UNCHANGED <<openConnections, monitorData, tracked>>
  /\ UNCHANGED <<routerVars, dispatchVars, balancerVars, shutdownVars>>
  /\ UNCHANGED <<timeoutVars, directoryVars, watcherVars, phaseVars>>

NextApplicable ==
  \E middlewarePath \in MiddlewarePaths, requestPath \in ApplicableUrls :
     IsPathApplicable(middlewarePath, requestPath)

SpecApplicable == Init /\ [][NextApplicable]_vars

(***************************************************************************)
(* Connections of the workers and what the coordinator's records say of    *)
(* them (utils/loadBalancer startWorker, start).                           *)
(***************************************************************************)
MaxOpen == 2

\* the connections a worker's server holds open
OpenOf(id) == IF id \in DOMAIN openConnections THEN openConnections[id] ELSE 0

\* cluster.on('message') of the primary: only a message of type 'stats' is handled
onWorkerMessage(st, workerId, message) ==
  IF message.type = "stats" THEN updateWorkerStats(st, workerId, message.stats) ELSE st

\* reportStats() of a worker: connections is the literal 0
statsMessage(load, lastUsed) ==
  [type |-> "stats", stats |-> [load |-> load, connections |-> 0, lastUsed |-> lastUsed]]

\* what a worker sends when it is told 'connection-start' or 'connection-end'
statsUpdateMessage(connectionChange) ==
  [type |-> "stats-update", connectionChange |-> connectionChange]

\* a client connects to a worker, or a connection of a worker closes; were the worker
\* told so by a 'connection-start' or 'connection-end' message, its stats-update
\* reaches the primary's listener
ConnectionEvent(id, connectionChange) ==
  /\ workerCount > 0
  /\ id \in clusterWorkers
  /\ OpenOf(id) + connectionChange \in 0..MaxOpen
  /\ openConnections' = MapPut(openConnections, id, OpenOf(id) + connectionChange)
  /\ state' = onWorkerMessage(state, id, statsUpdateMessage(connectionChange))
  /\ lastPick' = NoPick
  /\ UNCHANGED <<clusterWorkers, nextWorkerId, restartTimers, workerCount, recent, assigned,
                 dropped, exitCount, burstCount>>
  /\ UNCHANGED <<pathMatchCache, lastApplicable, monitorData, tracked>>
  /\ UNCHANGED <<routerVars, dispatchVars, shutdownVars>>
  /\ UNCHANGED <<timeoutVars, directoryVars, watcherVars, phaseVars>>

\* the interval of a worker's reportStats fires and the primary receives the message
ReportStats(id, load, lastUsed) ==
  /\ workerCount > 0
  /\ id \in clusterWorkers
  /\ state' = onWorkerMessage(state, id, statsMessage(load, lastUsed))
  /\ lastPick' = NoPick
  /\ UNCHANGED <<clusterWorkers, nextWorkerId, restartTimers, workerCount, recent, assigned,
                 dropped, exitCount, burstCount>>
  /\ UNCHANGED <<routerVars, dispatchVars, shutdownVars, extraVars>>

NextConnections ==
  \/ \E algorithm \in Algorithms, stickySessions \in BOOLEAN, numWorkers \in 1..MaxWorkers :
       StartCluster(algorithm, stickySessions, numWorkers)
  \/ \E id \in clusterWorkers, connectionChange \in {1, -1} : ConnectionEvent(id, connectionChange)
  \/ \E id \in clusterWorkers, load \in 0..1 : ReportStats(id, load, 1)
  \/ \E clientIp \in Clients : GetNextWorker(clientIp)

SpecConnections == Init /\ [][NextConnections]_vars

(***************************************************************************)
(* The performance monitor (utils/monitor.ts) as the request listener of   *)
(* adapters/node.ts drives it.                                             *)
(***************************************************************************)
\* how the request listener returns, with the arguments of its requestTracker.end call
\* where it makes one; statusCode is one of the codes the response may carry there
ListenerExits ==
  { [at |-> "configBeforeRequest", ends |-> TRUE, statusCode |-> 400, error |-> FALSE],
    [at |-> "beforeRequest", ends |-> TRUE, statusCode |-> 400, error |-> FALSE],
    [at |-> "health", ends |-> FALSE, statusCode |-> 200, error |-> FALSE],
    [at |-> "notFound", ends |-> TRUE, statusCode |-> 404, error |-> FALSE],
    [at |-> "routeError", ends |-> TRUE, statusCode |-> 405, error |-> TRUE],
    [at |-> "configAfterRequest", ends |-> TRUE, statusCode |-> 500, error |-> FALSE],
    [at |-> "completed", ends |-> TRUE, statusCode |-> 200, error |-> FALSE],
    [at |-> "configOnError", ends |-> TRUE, statusCode |-> 500, error |-> TRUE],
    [at |-> "catch", ends |-> TRUE, statusCode |-> 500, error |-> TRUE] }

\* trackRequest(): data.activeRequests++
trackRequest(d) == [d EXCEPT !.activeRequests = @ + 1]

\* the end(statusCode, error) of a tracker
trackerEnd(d, statusCode, error) ==
  [d EXCEPT !.activeRequests = @ - 1,
            !.requestCount = @ + 1,
            !.errorCount = IF error \/ statusCode >= 500 THEN @ + 1 ELSE @]

\* resetMetrics()
resetMetrics(d) == [d EXCEPT !.activeRequests = 0, !.requestCount = 0, !.errorCount = 0]

\* requestListener is entered: performanceMonitor.trackRequest(), then the listener
\* runs up to its first await
TrackRequest(r) ==
  /\ tracked[r] = "idle"
  /\ tracked' = [tracked EXCEPT ![r] = "started"]
  /\ monitorData' = trackRequest(monitorData)
  /\ UNCHANGED <<pathMatchCache, lastApplicable, openConnections>>
  /\ UNCHANGED <<routerVars, dispatchVars, balancerVars, shutdownVars>>
  /\ UNCHANGED <<timeoutVars, directoryVars, watcherVars, phaseVars>>

\* requestListener returns at one of its exits
ListenerReturns(r, exit) ==
  /\ tracked[r] = "started"
  /\ tracked' = [tracked EXCEPT ![r] = exit.at]
  /\ monitorData' = IF exit.ends THEN trackerEnd(monitorData, exit.statusCode, exit.error)
                     ELSE monitorData
  /\ UNCHANGED <<pathMatchCache, lastApplicable, openConnections>>
  /\ UNCHANGED <<routerVars, dispatchVars, balancerVars, shutdownVars>>
  /\ UNCHANGED <<timeoutVars, directoryVars, watcherVars, phaseVars>>

\* setInterval(resetMetrics, config.resetInterval) fires
ResetMetrics ==
  /\ monitorData' = resetMetrics(monitorData)
  /\ UNCHANGED <<pathMatchCache, lastApplicable, openConnections, tracked>>
  /\ UNCHANGED <<routerVars, dispatchVars, balancerVars, shutdownVars>>
  /\ UNCHANGED <<timeoutVars, directoryVars, watcherVars, phaseVars>>

NextMonitor ==
  \/ \E r \in TrackedRequests : TrackRequest(r)
  \/ \E r \in TrackedRequests, exit \in ListenerExits : ListenerReturns(r, exit)
  \/ ResetMetrics

SpecMonitor == Init /\ [][NextMonitor]_vars

(***************************************************************************)
(* What the registered patterns mean, read off the addRoute calls: the     *)
(* yardstick the lookups are compared with.                                *)
(***************************************************************************)
IsParamSeg(seg) == parsePattern(seg).isParam
IsLiteralSeg(seg) == ~IsParamSeg(seg) /\ seg # <<"*">>

RECURSIVE PatternMatchesFrom(_, _, _)
PatternMatchesFrom(ps, rs, i) ==
  IF i > Len(ps) THEN i > Len(rs)
  ELSE IF IsParamSeg(ps[i])
       THEN IF i > Len(rs)
            THEN parsePattern(ps[i]).isOptional /\ i = Len(ps)
            ELSE PatternMatchesFrom(ps, rs, i + 1)
       ELSE IF ps[i] = <<"*">> THEN i <= Len(rs)
       ELSE i <= Len(rs) /\ rs[i] = ps[i] /\ PatternMatchesFrom(ps, rs, i + 1)

RequestSegs(url) == SplitSegments(NormalizeUrl(url))
PatSegs(route) == SplitSegments(route.path)
RouteMatches(route, url) == PatternMatchesFrom(PatSegs(route), RequestSegs(url), 1)

\* the first i-1 segments of two patterns lead to the same trie node
SameParent(ps, qs, i) ==
  /\ Len(ps) >= i - 1
  /\ Len(qs) >= i - 1
  /\ \A j \in 1..(i - 1) :
        \/ IsParamSeg(ps[j]) /\ IsParamSeg(qs[j])
        \/ IsLiteralSeg(ps[j]) /\ ps[j] = qs[j]

SameNode(ps, qs) == Len(ps) = Len(qs) /\ SameParent(ps, qs, Len(ps) + 1)

Routes == {registered[h] : h \in 1..Len(registered)}
Resolved == registered[lastLookup.outcome.handler]
Found == lastLookup.valid /\ lastLookup.outcome.kind = "found"

\* C1: static precedence. When a registered route for the requested method matches
\* the request with a literal at some position, and another route has a parameter
\* at that position under the same parent node, a lookup that finds a handler
\* never resolves to a route with the parameter there; a request that is itself a
\* registered all-literal path resolves to that path's first handler; and a request
\* matched by parameter routes of one node only resolves to the first of them.
C1_StaticPrecedence ==
  lastLookup.valid =>
    LET rs == RequestSegs(lastLookup.url)
        m == lastLookup.method
        matching == {r \in Routes : RouteMatches(r, lastLookup.url)}
    IN /\ \A s \in matching, d \in Routes, i \in 1..Len(rs) :
            ( /\ s.method = m
              /\ Len(PatSegs(s)) >= i /\ IsLiteralSeg(PatSegs(s)[i])
              /\ Len(PatSegs(d)) >= i /\ IsParamSeg(PatSegs(d)[i])
              /\ SameParent(PatSegs(s), PatSegs(d), i)
              /\ Found )
            => ( SameParent(PatSegs(Resolved), PatSegs(s), i)
                 => /\ Len(PatSegs(Resolved)) >= i
                    /\ PatSegs(Resolved)[i] = rs[i] )
       /\ \A h \in 1..Len(registered) :
            ( /\ registered[h].method = m
              /\ PatSegs(registered[h]) = rs
              /\ \A i \in 1..Len(rs) : IsLiteralSeg(rs[i])
              /\ \A g \in 1..(h - 1) : ~(registered[g].method = m /\ PatSegs(registered[g]) = rs) )
            => Found /\ lastLookup.outcome.handler = h
       /\ \A h \in 1..Len(registered) :
            ( /\ registered[h].method = m
              /\ registered[h] \in matching
              /\ \E i \in 1..Len(PatSegs(registered[h])) : IsParamSeg(PatSegs(registered[h])[i])
              /\ \A r \in matching : SameNode(PatSegs(r), PatSegs(registered[h]))
              /\ \A g \in 1..(h - 1) : ~(registered[g].method = m /\ registered[g] \in matching) )
            => Found /\ lastLookup.outcome.handler = h

\* the name the trie holds for the parameter at position j of a registered pattern
RECURSIVE NodeOfPrefix(_, _)
NodeOfPrefix(ps, n) ==
  IF n = 0 THEN <<>>
  ELSE Append(NodeOfPrefix(ps, n - 1),
              IF IsParamSeg(ps[n]) THEN ParamEdge ELSE StaticEdge(ps[n]))
BoundName(ps, j) == rootNode[NodeOfPrefix(ps, j - 1)].paramChild[1].name

\* C2: parameter capture. A lookup that resolves to a route binds every parameter
\* name declared in that route's own pattern to the request segment at its position.
C2_ParameterCapture ==
  Found =>
    LET ps == PatSegs(Resolved)
        rs == RequestSegs(lastLookup.url)
        params == lastLookup.outcome.params
    IN \A j \in 1..Len(ps) :
         (IsParamSeg(ps[j]) /\ j <= Len(rs))
         => /\ parsePattern(ps[j]).name \in DOMAIN params
            /\ params[parsePattern(ps[j]).name] = rs[j]

RECURSIVE TotalLen(_, _)
TotalLen(segs, from) ==
  IF from > Len(segs) THEN 0 ELSE Len(segs[from]) + TotalLen(segs, from + 1)

IsWildcardRoute(route) == PatSegs(route) # <<>> /\ PatSegs(route)[Len(PatSegs(route))] = <<"*">>

\* C3: wildcard capture. A lookup that resolves to a route ending in * has at least
\* one segment at the wildcard position, binds params["*"] to exactly the remaining
\* segments with one "/" between neighbours, and keeps the parameters bound on the way.
C3_WildcardCapture ==
  (Found /\ IsWildcardRoute(Resolved)) =>
    LET ps == PatSegs(Resolved)
        k == Len(ps)
        rs == RequestSegs(lastLookup.url)
        params == lastLookup.outcome.params
    IN /\ Len(rs) >= k
       /\ <<"*">> \in DOMAIN params
       /\ SplitSegments(params[<<"*">>]) = SubSeq(rs, k, Len(rs))
       /\ Len(params[<<"*">>]) = TotalLen(rs, k) + (Len(rs) - k)
       /\ \A j \in 1..(k - 1) :
            IsParamSeg(ps[j]) => /\ BoundName(ps, j) \in DOMAIN params
                                 /\ params[BoundName(ps, j)] = rs[j]
       /\ Cardinality(DOMAIN params) = 1 + Cardinality({j \in 1..(k - 1) : IsParamSeg(ps[j])})

\* a wildcard below a parameter captured two segments
C3_Witness ==
  /\ Found
  /\ IsWildcardRoute(Resolved)
  /\ Len(RequestSegs(lastLookup.url)) = Len(PatSegs(Resolved)) + 1
  /\ IsParamSeg(PatSegs(Resolved)[1])
  /\ lastLookup.outcome.params[<<"*">>] = <<"b", "/", "c">>

\* C4: HEAD fallback. A HEAD request on a path matching a registered route that has
\* a GET handler and no HEAD handler finds a handler, and it is a GET handler.
C4_HeadFallback ==
  (lastLookup.valid /\ lastLookup.method = "HEAD") =>
    \A g \in Routes :
      ( /\ g.method = "GET"
        /\ RouteMatches(g, lastLookup.url)
        /\ \A r \in Routes : r.method # "HEAD" )
      => Found /\ Resolved.method = "GET"

Matching == {r \in Routes : RouteMatches(r, lastLookup.url)}
MethodNotAllowed == lastLookup.valid /\ lastLookup.outcome.kind = "methodNotAllowed"

OutcomeOf(root, cache, method, url) == FindRouteOutcome(RouterFindRoute(root, cache, method, url).result)

\* C6: trailing-slash normalization. In every state, whatever the cache holds, a
\* lookup of a path other than "/" with one or two trailing slashes added returns
\* what the lookup of the path returns, and normalizing a normalized url changes
\* nothing.
C6_TrailingSlash ==
  \A method \in LookupMethods, p \in RequestUrls :
    /\ OutcomeOf(rootNode, cachedRoutes, method, p \o <<"/">>)
         = OutcomeOf(rootNode, cachedRoutes, method, p)
    /\ OutcomeOf(rootNode, cachedRoutes, method, p \o <<"/", "/">>)
         = OutcomeOf(rootNode, cachedRoutes, method, p)
    /\ \A u \in {p, p \o <<"/">>, p \o <<"/", "/">>} :
         /\ NormalizeUrl(NormalizeUrl(u)) = NormalizeUrl(u)
         /\ NormalizeUrl(u) = NormalizeUrl(p)

\* a request with a trailing slash found the route of the path without it
C6_Witness ==
  /\ Found
  /\ lastLookup.url[Len(lastLookup.url)] = "/"
  /\ PatSegs(Resolved) = RequestSegs(lastLookup.url)
  /\ \E i \in 1..Len(cachedRoutes) :
       cachedRoutes[i].key = <<lastLookup.method, SubSeq(lastLookup.url, 1, Len(lastLookup.url) - 1)>>

RECURSIVE PathPart(_)
\* the url up to its first "?"
PathPart(url) ==
  IF url = <<>> \/ Head(url) = "?" THEN <<>> ELSE <<Head(url)>> \o PathPart(Tail(url))

\* C7: query strings are stripped before matching. A request url path?query
\* resolves as the path alone does.
C7_QueryStripped ==
  (lastLookup.valid /\ "?" \in Range(lastLookup.url))
  => lastLookup.outcome
       = OutcomeOf(rootNode, cachedRoutes, lastLookup.method, PathPart(lastLookup.url))

\* C8: cache transparency. In every state every lookup returns what an uncached
\* traversal of the current trie returns.
C8_CacheTransparent ==
  \A method \in LookupMethods, url \in RequestUrls :
    OutcomeOf(rootNode, cachedRoutes, method, url) = OutcomeOf(rootNode, <<>>, method, url)

(***************************************************************************)
(* Reloading.                                                              *)
(***************************************************************************)
RECURSIVE RoutesOfTree(_)
\* the addRoute calls a complete scan of a directory tree makes, in order
RoutesOfTree(tree) ==
  IF tree = <<>> THEN <<>>
  ELSE LET methods == ModuleMethods(Head(tree))
       IN [i \in 1..Len(methods) |-> [method |-> methods[i], path |-> ModuleRoutePath(Head(tree))]]
          \o RoutesOfTree(Tail(tree))

RECURSIVE TableOf(_, _)
\* the trie that the first n of a list of addRoute calls build
TableOf(routes, n) ==
  IF n = 0 THEN EmptyTrie
  ELSE addRoute(TableOf(routes, n - 1), 0, <<>>, routes[n].method, routes[n].path, n).root

\* a route serves a request: its pattern matches and it has the method, or GET for HEAD
Serves(route, method, url) ==
  /\ RouteMatches(route, url)
  /\ \/ route.method = method
     \/ method = "HEAD" /\ route.method = "GET" /\ ~IsWildcardRoute(route)

\* C9: reload invalidation. Once loadRoutes has completed, a lookup of a path that no
\* route of the scanned directory tree matches is not-found, and a lookup that no
\* route of the scanned tree serves finds no handler, whatever was cached before or
\* looked up during the reload.
C9_ReloadInvalidation ==
  (loadPc = "idle" /\ lastLookup.valid) =>
    LET now == Range(RoutesOfTree(scanned))
    IN /\ (\A r \in now : ~RouteMatches(r, lastLookup.url))
          => lastLookup.outcome.kind = "notfound"
       /\ (\A r \in now : ~Serves(r, lastLookup.method, lastLookup.url))
          => lastLookup.outcome.kind # "found"

\* a route of the replaced table served the request; after the reload it is not-found
C9_Witness ==
  /\ loadPc = "idle"
  /\ lastLookup.valid
  /\ \E r \in Range(before) : Serves(r, lastLookup.method, lastLookup.url)
  /\ \A r \in Range(RoutesOfTree(scanned)) : ~RouteMatches(r, lastLookup.url)
  /\ lastLookup.outcome.kind = "notfound"

\* C10: atomic table swap. Every lookup, also one made while loadRoutes is
\* suspended, returns what the complete table from before the reload returns or
\* what the complete new table returns.
C10_AtomicSwap ==
  lastLookup.valid =>
    LET old == IF loadPc = "idle" THEN registered ELSE before
        new == IF loadPc = "idle" THEN registered ELSE RoutesOfTree(disk)
    IN lastLookup.outcome \in
         { OutcomeOf(TableOf(old, Len(old)), <<>>, lastLookup.method, lastLookup.url),
           OutcomeOf(TableOf(new, Len(new)), <<>>, lastLookup.method, lastLookup.url) }

(***************************************************************************)
(* The request pipeline: what the log of the latest request shows.         *)
(***************************************************************************)
ReqLog == lastRequest.log
IsHook(e, phase) == e.ev = "hook" /\ e.phase = phase
IsRun(e, phase) == e.ev = "run" /\ e.phase = phase
\* a hook of the phase, or the call of runMiddlewares for it
InPhase(e, phase) == IsHook(e, phase) \/ IsRun(e, phase)
\* a response was started before step i of the log
StartedBefore(i) ==
  \E j \in 1..(i - 1) : ReqLog[j].ev = "handler" /\ ReqLog[j].does \in {"respond", "respondThrow"}
\* step i is a beforeRequest hook, the handler or an afterRequest hook throwing
ThrowsAt(i) ==
  \/ (IsHook(ReqLog[i], "beforeRequest") \/ IsHook(ReqLog[i], "afterRequest"))
       /\ ReqLog[i].does = "throw"
  \/ ReqLog[i].ev = "handler" /\ ReqLog[i].does \in {"throw", "respondThrow"}
\* the route the request would resolve to
WouldResolve ==
  OutcomeOf(rootNode, <<>>, lastRequest.method, lastRequest.url)

\* C11: middleware short-circuit. After a beforeRequest hook (config-level,
\* global or path-scoped) returned false for a request, no later
\* beforeRequest hook runs for it, its route handler is not executed and no
\* afterRequest hook runs.
C11_ShortCircuit ==
  \A i \in 1..Len(ReqLog) :
    (IsHook(ReqLog[i], "beforeRequest") /\ ReqLog[i].does = "false")
    => \A j \in (i + 1)..Len(ReqLog) :
         /\ ~IsHook(ReqLog[j], "beforeRequest")
         /\ ReqLog[j].ev # "handler"
         /\ ~InPhase(ReqLog[j], "afterRequest")

\* a registered global hook returned false while a path-scoped beforeRequest hook
\* applies to the url, afterRequest hooks exist and the route has a handler
C11_Witness ==
  /\ lastRequest.valid
  /\ \E i \in 1..Len(ReqLog) :
       IsHook(ReqLog[i], "beforeRequest") /\ ReqLog[i].does = "false" /\ ReqLog[i].scope = "global"
  /\ \E k \in 1..Len(pathMiddlewares) :
       /\ isPathApplicable(pathMiddlewares[k].path, Pathname(lastRequest.url))
       /\ pathMiddlewares[k].beforeRequest # <<>>
       /\ pathMiddlewares[k].afterRequest # <<>>
  /\ WouldResolve.kind = "found"

\* C12: an exception yields 500. When a beforeRequest hook, the handler or an
\* afterRequest hook throws before any response was started, the onError
\* phase runs and the request ends with a 500 response, whatever the onError
\* hooks return.
C12_ExceptionYields500 ==
  \A i \in 1..Len(ReqLog) :
    (ThrowsAt(i) /\ ~StartedBefore(i) /\ ReqLog[i].does = "throw")
    => /\ \E j \in (i + 1)..Len(ReqLog) : InPhase(ReqLog[j], "onError")
       /\ lastRequest.res.sent
       /\ lastRequest.res.status = 500

\* C13: error isolation. After a request in which the handler or a hook
\* threw, nothing escaped the listener as a rejected promise, no shutdown
\* was started, the route table and the middleware registry are what they
\* were before the request.
C13_ErrorIsolation ==
  (lastRequest.valid /\ \E i \in 1..Len(ReqLog) : ReqLog[i].does \in {"throw", "respondThrow"})
  => /\ ~lastRequest.escaped
     /\ rejections = 0
     /\ ~isShuttingDown
     /\ globalMiddlewares = lastRequest.registryBefore

\* C14: phase order. Default headers come first; every beforeRequest hook
\* runs before route resolution; the handler runs only after the
\* beforeRequest phase reported continue and a route was found; the
\* afterRequest phase runs only after the handler returned normally; and
\* each phase, each hook of it and the handler run at most once per request.
C14_PhaseOrder ==
  LET n == Len(ReqLog)
      Resolves(i) == ReqLog[i].ev = "findRoute"
  IN /\ (lastRequest.valid /\ config.defaultHeaders) => (n > 0 /\ ReqLog[1].ev = "defaultHeaders")
     /\ \A i \in 1..n : ReqLog[i].ev = "defaultHeaders" => i = 1
     /\ \A i, j \in 1..n : (InPhase(ReqLog[i], "beforeRequest") /\ Resolves(j)) => i < j
     /\ \A i \in 1..n :
          ReqLog[i].ev = "handler"
          => /\ \E j \in 1..(i - 1) : Resolves(j)
             /\ \E j \in 1..(i - 1) : IsRun(ReqLog[j], "beforeRequest")
             /\ \A j \in 1..n : IsHook(ReqLog[j], "beforeRequest")
                                  => (j < i /\ ReqLog[j].does \notin {"false", "throw"})
             /\ lastRequest.route.kind = "found"
             /\ ReqLog[i].idx = lastRequest.route.handler
     /\ \A i \in 1..n :
          InPhase(ReqLog[i], "afterRequest")
          => \E j \in 1..(i - 1) : ReqLog[j].ev = "handler" /\ ReqLog[j].does = "respond"
     /\ \A i, j \in 1..n :
          (i # j /\ ReqLog[i].ev \in {"run", "hook", "handler", "findRoute"}) => ReqLog[i] # ReqLog[j]

\* a request in which a beforeRequest hook, the handler and an afterRequest hook
\* ran in that order after the default headers
C14_Witness ==
  /\ lastRequest.valid
  /\ \E i, j, k \in 1..Len(ReqLog) :
       /\ i < j /\ j < k
       /\ IsHook(ReqLog[i], "beforeRequest")
       /\ ReqLog[j].ev = "handler"
       /\ IsHook(ReqLog[k], "afterRequest")
  /\ ReqLog[1].ev = "defaultHeaders"
  /\ requestCount = MaxRequests
  /\ "timeout" \in Range(lastRequest.registryBefore.beforeRequest)

\* C15: 405 carries the allowed methods. When the path of a request matches
\* a route that has no handler for its method, the response has status 405
\* and carries, in an Allow header or in its body, the allowed methods the
\* router computed.
C15_AllowedInResponse ==
  (lastRequest.valid /\ lastRequest.route.kind = "methodNotAllowed")
  => /\ lastRequest.res.status = 405
     /\ \/ "Allow" \in lastRequest.res.headers
        \/ /\ "allowedMethods" \in DOMAIN lastRequest.res.body
           /\ lastRequest.res.body.allowedMethods = lastRequest.route.allowedMethods

(***************************************************************************)
(* The load balancer and the worker pool.                                  *)
(***************************************************************************)
\* C16: round-robin fairness. With the round-robin algorithm, sticky
\* sessions off and an unchanged worker list of N workers, any N
\* consecutive getNextWorker calls select every worker exactly once, and
\* fewer than N consecutive calls never select a worker twice (so after M
\* calls every worker's count is within one of M/N).
C16_RoundRobinFair ==
  (state.options.algorithm = "round-robin" /\ ~state.options.stickySessions)
  => /\ \A i, j \in 1..Len(recent) : i # j => recent[i] # recent[j]
     /\ Range(recent) \subseteq Range(state.workerIds)
     /\ Len(recent) = Len(state.workerIds) => Range(recent) = Range(state.workerIds)

\* a full round over MaxWorkers workers has been selected and the index has wrapped
C16_Witness ==
  /\ state.options.algorithm = "round-robin" /\ ~state.options.stickySessions
  /\ Len(state.workerIds) = MaxWorkers
  /\ Len(recent) = MaxWorkers
  /\ lastPick.valid
  /\ state.currentWorkerIndex = 0

\* C17: selection only returns live workers. The worker-id list and the
\* record map hold the same ids, without duplicates, all of live workers;
\* getNextWorker returns undefined exactly when no worker is registered and
\* otherwise a worker that has a record and has not exited.
C17_LiveSelection ==
  /\ Range(state.workerIds) = DOMAIN state.workers
  /\ \A i, j \in 1..Len(state.workerIds) : i # j => state.workerIds[i] # state.workerIds[j]
  /\ DOMAIN state.workers \subseteq clusterWorkers
  /\ lastPick.valid
       => /\ (lastPick.worker = 0) <=> (lastPick.registeredBefore = {})
          /\ lastPick.worker # 0
               => (lastPick.worker \in DOMAIN state.workers /\ lastPick.worker \in clusterWorkers)

\* with sticky sessions on, a client whose worker has exited is given a live one
C17_Witness ==
  /\ lastPick.valid
  /\ state.options.stickySessions
  /\ lastPick.previous # 0
  /\ ~lastPick.previousRegistered
  /\ lastPick.worker # 0
  /\ exitCount > 0

\* C18 as stated: with sticky sessions on, a client's call returns the worker
\* its previous call returned whenever that worker is still registered,
\* whatever selections for other clients happened in between.
C18_StickySameWorker ==
  (state.options.stickySessions /\ lastPick.valid /\ lastPick.previous # 0
     /\ lastPick.previousRegistered)
  => lastPick.worker = lastPick.previous

\* C18 amended: with sticky sessions on, a client's call returns the worker
\* its previous call returned whenever that worker is still registered and
\* the cap of the sticky table (the 1000 oldest entries go each time it
\* grows past 10000) has not removed the client's entry in between.
C18_StickyUntilEvicted ==
  (state.options.stickySessions /\ lastPick.valid /\ lastPick.previous # 0
     /\ lastPick.previousRegistered /\ ~lastPick.wasDropped)
  => lastPick.worker = lastPick.previous

\* a client comes back after calls from thousands of other clients and keeps its worker
C18_Witness ==
  /\ state.options.stickySessions
  /\ lastPick.valid /\ lastPick.previous # 0 /\ lastPick.previousRegistered
  /\ ~lastPick.wasDropped
  /\ lastPick.worker = lastPick.previous
  /\ burstCount > 0
  /\ StickySize(state.sticky) > StickyEvictBatch

\* C19: worker respawn. Every worker exit leads to exactly one fork of a
\* replacement, the number of live workers never exceeds workerCount, and it
\* equals workerCount once no restart delay is pending.
C19_Respawn ==
  workerCount > 0
  => /\ (nextWorkerId - 1 - workerCount) + restartTimers.balancer + restartTimers.adapter
          = exitCount
     /\ Cardinality(clusterWorkers) <= workerCount
     /\ (restartTimers.balancer = 0 /\ restartTimers.adapter = 0)
          => Cardinality(clusterWorkers) = workerCount

\* shutdown() has finished: the process exited, or the primary returned control
Stopped == shutdownPc \in {"exited", "completed"}

\* C20: once the shutdown signal has been received, the process stops accepting
\* new connections and is stopped within the configured timeout counted from the
\* signal, whatever the hooks and the open connections do.
C20_BoundedShutdown ==
  (isShuttingDown /\ clock > signalAt + Timeout) => (~accepting /\ Stopped)

\* C21: a process that serves connections and exits after SIGTERM or SIGINT has
\* run beforeShutdown, stopped accepting, let its connections end and run
\* onShutdown, unless the hard-ceiling timer (or a hook that threw) ended it;
\* no other signal listener exits the process earlier.
C21_NotPreempted ==
  (/\ shutdownPc = "exited"
   /\ signalled # {}
   /\ signalled \subseteq {"SIGTERM", "SIGINT"}
   /\ exitReason \notin {"timeout", "hookError"})
  => /\ completedSteps = ShutdownSteps
     /\ ~accepting
     /\ connections \subseteq destroyed

C23_TimeoutArmed ==
  lastRequest.valid =>
    \A j \in 1..Len(ReqLog) :
      ReqLog[j].ev = "handler"
      => \E i \in 1..(j - 1) : IsHook(ReqLog[i], "beforeRequest") /\ ReqLog[i].does = "timeout"

\* C24: once the timeout middleware was applied to a response, isTimedOut() is
\* false and cleanup listens to both 'finish' and 'close' while the timer is
\* pending; isTimedOut() is true exactly when the timer fired before the
\* response finished or closed; a 408 is written only then; a response that
\* finished or closed before the timer fired has no pending timer and
\* isTimedOut() stays false.
C24_TimeoutFlag ==
  \A r \in Responses :
    responses[r].defined =>
      /\ r \in timeoutMap =>
           (~responses[r].timedOut /\ {"finish", "close"} \subseteq responses[r].listeners)
      /\ responses[r].timedOut <=> responses[r].firedOpen
      /\ responses[r].status = 408 => responses[r].firedOpen
      /\ ((responses[r].finished \/ responses[r].closed) /\ ~responses[r].firedOpen)
           => (r \notin timeoutMap /\ ~responses[r].timedOut)

\* the directory dir is D or an ancestor of D
IsAncestorOrSelf(dir, D) == Len(dir) <= Len(D) /\ SubSeq(D, 1, Len(dir)) = dir

\* hook k of the +middleware module file ran in the beforeRequest phase before step j
AppliedBefore(file, k, j) ==
  \E i \in 1..(j - 1) :
    /\ IsHook(ReqLog[i], "beforeRequest")
    /\ ReqLog[i].scope = "path"
    /\ ReqLog[i].path = PathOf(file.dir)
    /\ ReqLog[i].idx = k

\* C25: a directory's middleware governs its routes. Whenever the handler of a route
\* loaded from directory D was executed for a request, every beforeRequest hook of the
\* +middleware module of D and of each ancestor directory of D was run for that request
\* before it, also when D or an ancestor is a parameter directory.
C25_DirectoryMiddleware ==
  lastRequest.valid =>
    \A j \in 1..Len(ReqLog) :
      ReqLog[j].ev = "handler" =>
        \A m \in 1..Len(disk), f \in 1..Len(middlewareDisk) :
          (/\ ModuleRoutePath(disk[m]) = registered[ReqLog[j].idx].path
           /\ IsAncestorOrSelf(middlewareDisk[f].dir, disk[m].dir))
          => \A k \in 1..Len(HookList(middlewareDisk[f].beforeRequest)) :
               AppliedBefore(middlewareDisk[f], k, j)

\* C26: no handler without its governing middleware under reload. Whenever the
\* handler of a request was executed, every beforeRequest hook of every entry of the
\* middleware table in force when the handler was resolved, whose prefix applies to the
\* request path, was run for that request before the handler, however the steps of a
\* reload fell between the steps of the request.
C26_GovernedUnderReload ==
  inflight.pc = "done" =>
    \A j \in 1..Len(inflight.log) :
      inflight.log[j].ev = "handler" =>
        \A e \in 1..Len(inflight.middlewares) :
          isPathApplicable(inflight.middlewares[e].path, Pathname(inflight.url))
          => \A k \in 1..Len(inflight.middlewares[e].beforeRequest) :
               \E i \in 1..(j - 1) :
                 /\ IsHook(inflight.log[i], "beforeRequest")
                 /\ inflight.log[i].scope = "path"
                 /\ inflight.log[i].path = inflight.middlewares[e].path
                 /\ inflight.log[i].idx = k

\* the active route table is the one a complete load of the directory builds
TableReflectsDirectory == loadPc = "idle" /\ registered = RoutesOfTree(disk)

\* C27: reload triggers collapse without being lost. A notification that arrives
\* while a reload is in progress leads to one further reload after the current one,
\* so that once the notifications have stopped the active route table eventually
\* reflects the final state of the watched directory, and stays so.
C27_ReloadNotLost == <>[](isWatching => TableReflectsDirectory)

(***************************************************************************)
(* Claims about one call of runMiddlewares.                                *)
(***************************************************************************)
RunLog == lastRun.log
\* step i of the log is a hook runMiddlewares called
RanHook(i) == RunLog[i].ev = "hook" /\ RunLog[i].scope \in {"global", "path"}
\* steps i < j of the log are hooks called by the same call of runMiddlewares
SameCall(i, j) ==
  /\ i < j
  /\ RanHook(i)
  /\ RanHook(j)
  /\ \A k \in (i + 1)..(j - 1) : RunLog[k].ev # "run"
\* the entries of the path registry that apply to the request of the last call
Applicable ==
  {e \in 1..Len(lastRun.pathMiddlewares) :
     isPathApplicable(lastRun.pathMiddlewares[e].path, lastRun.urlPath)}
\* hook k of the global list of the phase of step j ran before step j in the same call
GlobalRanBefore(k, j) ==
  \E i \in 1..(j - 1) : SameCall(i, j) /\ RunLog[i].scope = "global" /\ RunLog[i].idx = k
\* hook k of the entry of path ran before step j in the same call
PathRanBefore(path, k, j) ==
  \E i \in 1..(j - 1) :
    SameCall(i, j) /\ RunLog[i].scope = "path" /\ RunLog[i].path = path /\ RunLog[i].idx = k

FalsyHooks == {"undefined", "null", "zero", "empty"}

C30_HeadersSentStops ==
  \A i \in 1..Len(RunLog) :
    (RanHook(i) /\ RunLog[i].does = "send")
    => /\ \A j \in (i + 1)..Len(RunLog) : ~(RanHook(j) /\ RunLog[j].phase = RunLog[i].phase)
       /\ RunLog[i].phase = lastRun.phase => ~lastRun.continue

\* the steps of the log at which runMiddlewares was entered for the onError phase
OnErrorRuns == {j \in 1..Len(RunLog) : IsRun(RunLog[j], "onError")}

\* C31: hook error routing. When a global or path-scoped hook throws in the
\* beforeRequest or afterRequest phase, no further hook of that phase runs, the
\* onError phase runs exactly once, called next with a context that holds the thrown
\* error and the name of the failing phase, and runMiddlewares returns false.
C31_HookErrorRouting ==
  \A i \in 1..Len(RunLog) :
    (RanHook(i) /\ RunLog[i].does = "throw" /\ RunLog[i].phase \in {"beforeRequest", "afterRequest"})
    => /\ \A j \in (i + 1)..Len(RunLog) : ~(RanHook(j) /\ RunLog[j].phase = RunLog[i].phase)
       /\ OnErrorRuns = {i + 1}
       /\ RunLog[i + 1].context = [error |-> ThrownBy(RunLog[i]), phase |-> RunLog[i].phase]
       /\ ~lastRun.continue
       /\ ~lastRun.rejects

\* the second hook of a path entry threw in the afterRequest phase, a later hook of
\* the entry exists, and onError hooks ran
C31_Witness ==
  /\ lastRun.valid
  /\ \E i \in 1..Len(RunLog) :
       /\ RanHook(i) /\ RunLog[i].does = "throw" /\ RunLog[i].scope = "path"
       /\ RunLog[i].phase \in {"beforeRequest", "afterRequest"}
       /\ \E e \in Applicable :
            /\ lastRun.pathMiddlewares[e].path = RunLog[i].path
            /\ Len(lastRun.pathMiddlewares[e][RunLog[i].phase]) > RunLog[i].idx
       /\ \E j \in (i + 2)..Len(RunLog) : RanHook(j) /\ RunLog[j].phase = "onError"

C33_CacheBounded == CacheSize(cachedRoutes) <= CacheLimit

\* C34: forced destroy at timeout/2. A connection that is still open half the
\* timeout after server.close() was called is destroyed by the coordinator, so when
\* the hard-ceiling timer fires no tracked connection is still open.
C34_ForcedDestroy ==
  (shutdownPc = "exited" /\ exitReason = "timeout") => connections \subseteq destroyed

\* a pattern built from literal, required-parameter and trailing wildcard segments
IsRequiredPattern(route) ==
  \A i \in 1..Len(PatSegs(route)) :
     /\ IsParamSeg(PatSegs(route)[i]) => ~parsePattern(PatSegs(route)[i]).isOptional
     /\ PatSegs(route)[i] = <<"*">> => i = Len(PatSegs(route))

\* C35: full backtracking. When a traversal of the trie answers a lookup and some
\* registered pattern of literal, required-parameter and trailing wildcard segments
\* matches the path and serves the method, findRoute returns a handler.
C35_FullBacktracking ==
  (lastLookup.valid /\ ~lastLookup.fromCache) =>
    ( (\E r \in Routes : IsRequiredPattern(r) /\ Serves(r, lastLookup.method, lastLookup.url))
      => lastLookup.outcome.kind = "found" )

\* the figure each minimum-based algorithm compares
MinField ==
  [a \in {"least-connections", "least-cpu", "fastest-response"} |->
     IF a = "least-connections" THEN "connections"
     ELSE IF a = "least-cpu" THEN "load" ELSE "lastUsed"]

\* the positions in the id list of the registered workers with the least figure
MinimalAt(st, field) ==
  {i \in 1..Len(st.workerIds) :
     /\ st.workerIds[i] \in DOMAIN st.workers
     /\ \A j \in 1..Len(st.workerIds) :
          st.workerIds[j] \in DOMAIN st.workers
          => st.workers[st.workerIds[i]][field] <= st.workers[st.workerIds[j]][field]}

FirstMinimal(st, field) ==
  st.workerIds[CHOOSE i \in MinimalAt(st, field) : \A j \in MinimalAt(st, field) : i <= j]

\* C36: minimum-based algorithms. A getNextWorker call under least-connections,
\* least-cpu or fastest-response that is not answered from the sticky table returns
\* the first worker of the id list among the registered workers with the least
\* connections, load or lastUsed, and leaves every worker record and the id list as
\* they were.
C36_MinimumSelection ==
  [][\A clientIp \in Clients :
       ( /\ GetNextWorker(clientIp)
         /\ state.options.algorithm \in DOMAIN MinField
         /\ Len(state.workerIds) > 0
         /\ ~StickyHit(state, clientIp) )
       => /\ lastPick'.worker = FirstMinimal(state, MinField[state.options.algorithm])
          /\ state'.workers = state.workers
          /\ state'.workerIds = state.workerIds]_vars

\* least-cpu passed over the first worker of the list for one with a smaller load
C36_Witness ==
  /\ lastPick.valid
  /\ state.options.algorithm = "least-cpu"
  /\ ~state.options.stickySessions
  /\ Len(state.workerIds) = 2
  /\ lastPick.worker = state.workerIds[2]
  /\ state.workers[state.workerIds[2]].load < state.workers[state.workerIds[1]].load

RECURSIVE TrimSlashes(_)
\* a path without its trailing slashes
TrimSlashes(path) ==
  IF path # <<>> /\ path[Len(path)] = "/" THEN TrimSlashes(SubSeq(path, 1, Len(path) - 1))
  ELSE path

\* the prefix is the root, or the path is the prefix, or the path goes on below it
SegmentAligned(prefix, path) ==
  \/ TrimSlashes(prefix) = <<>>
  \/ TrimSlashes(path) = TrimSlashes(prefix)
  \/ StartsWith(TrimSlashes(path), TrimSlashes(prefix) \o <<"/">>)

\* C37: prefix applicability is segment-aligned. Every call of isPathApplicable,
\* answered from the memo table or not, returns TRUE exactly when the prefix is the
\* root, or the request path equals the prefix, or the request path starts with the
\* prefix followed by a slash, trailing slashes aside.
C37_SegmentAligned ==
  lastApplicable.valid =>
    (lastApplicable.result
       <=> SegmentAligned(lastApplicable.middlewarePath, lastApplicable.requestPath))

\* C38: connection counts are tracked. With every message of a worker delivered, the
\* coordinator's record of each registered worker holds the number of connections
\* that worker has open.
C38_ConnectionsTracked ==
  \A id \in DOMAIN state.workers : state.workers[id].connections = OpenOf(id)

\* the tracked requests that have started and not returned
InFlight == {r \in TrackedRequests : tracked[r] = "started"}

\* C39: the active-request counter is exact. Under every interleaving of listener
\* entries, listener exits and metrics resets, activeRequests is the number of
\* tracked requests that have started and not yet ended.
C39_ActiveExact == monitorData.activeRequests = Cardinality(InFlight)

\* C40: request handling leaves the middleware registry unchanged. A step in which
\* requestListener serves a request leaves the global beforeRequest, afterRequest
\* and onError lists as they were.
C40_RegistryUnchanged ==
  [][requestCount' # requestCount => globalMiddlewares' = globalMiddlewares]_vars
====
